---- MODULE Spec2Model ----
(***************************************************************************)
(* Model of the memoizing storage engine of mandala/_next/storage.py:      *)
(* refs, calls, the four cached tables, call_internal with its structural  *)
(* construct/destruct, commit and the garbage collection queries.          *)
(***************************************************************************)
EXTENDS Integers, Sequences, FiniteSets, TLC

VARIABLES atoms, shapes, ops, calls, current_context, nesting, last, pending, held, invoked,
          steps, written, ui, lite

vars == <<atoms, shapes, ops, calls, current_context, nesting, last, pending, held, invoked,
         steps, written, ui, lite>>

(***************************************************************************)
(* Bounds of the model.                                                    *)
(***************************************************************************)
\* payload values of atoms are 0 .. MaxVal
MaxVal == 1
\* number of call_internal invocations of a run
MaxCalls == 2
\* number of times the process is restarted without a commit
MaxCrashes == 1
\* number of drop_calls of a run
MaxDrops == 1
\* depth of nested `with storage:` blocks
MaxNesting == 2

NoObj == -1

(***************************************************************************)
(* Hashing adapter: an injective encoding of the hashed components.        *)
(***************************************************************************)
RECURSIVE Join(_)
Join(parts) ==
    IF parts = <<>> THEN ""
    ELSE IF Len(parts) = 1 THEN parts[1]
    ELSE parts[1] \o "," \o Join(Tail(parts))

get_content_hash(tag, parts) == tag \o "(" \o Join(parts) \o ")"

(***************************************************************************)
(* Serialization adapter.                                                  *)
(***************************************************************************)
serialize(obj) == IF obj = NoObj THEN "bytes:None" ELSE "bytes:" \o ToString(obj)

deserialize(bytes) ==
    IF \E n \in 0..MaxVal : serialize(n) = bytes
    THEN CHOOSE n \in 0..MaxVal : serialize(n) = bytes
    ELSE NoObj

(***************************************************************************)
(* Values: refs and raw values share one record shape.                     *)
(*   kind "AtomRef" / "ListRef" : refs                                     *)
(*   kind "Ref"                 : a ref of a kind the storage does not     *)
(*                                support                                  *)
(*   kind "int" / "list"        : raw values, not yet wrapped              *)
(***************************************************************************)
AtomRef(cid, hid, in_memory, obj) ==
    [kind |-> "AtomRef", cid |-> cid, hid |-> hid, in_memory |-> in_memory,
     obj |-> obj, elts |-> <<>>]

ListRef(cid, hid, in_memory, elts) ==
    [kind |-> "ListRef", cid |-> cid, hid |-> hid, in_memory |-> in_memory,
     obj |-> NoObj, elts |-> elts]

RawInt(n) ==
    [kind |-> "int", cid |-> "", hid |-> "", in_memory |-> TRUE,
     obj |-> n, elts |-> <<>>]

RawList(elts) ==
    [kind |-> "list", cid |-> "", hid |-> "", in_memory |-> TRUE,
     obj |-> NoObj, elts |-> elts]

\* a Ref that is neither an AtomRef nor a ListRef
OtherRef(cid, hid, obj) ==
    [kind |-> "Ref", cid |-> cid, hid |-> hid, in_memory |-> TRUE,
     obj |-> obj, elts |-> <<>>]

NoRef == AtomRef("", "", FALSE, NoObj)

\* isinstance(v, Ref)
IsRef(v) == v.kind \in {"AtomRef", "ListRef", "Ref"}

\* Ref.with_hid
with_hid(ref, hid) == [ref EXCEPT !.hid = hid]

\* AtomRef.detached / ListRef.shape: the payload-less structural copy
RECURSIVE detached(_)
detached(ref) ==
    IF ref.kind = "ListRef"
    THEN ListRef(ref.cid, ref.hid, FALSE,
                 [i \in 1..Len(ref.elts) |-> detached(ref.elts[i])])
    ELSE AtomRef(ref.cid, ref.hid, FALSE, NoObj)

shape(ref) == detached(ref)

\* AtomRef.attached(obj)
attached(ref, obj) == AtomRef(ref.cid, ref.hid, TRUE, obj)

\* ListRef.attached(obj)
attached_list(ref, elts) == ListRef(ref.cid, ref.hid, TRUE, elts)

shallow_copy(ref) == ref

\* wrap_atom(obj, history_id): history_id "" stands for None
wrap_atom(obj, history_id) ==
    LET uid == get_content_hash("cid", <<ToString(obj)>>)
    IN  AtomRef(uid,
                IF history_id = "" THEN get_content_hash("hid", <<uid>>) ELSE history_id,
                TRUE, obj)

(***************************************************************************)
(* Cached table layer: a write-back cache in front of a persistent table.  *)
(***************************************************************************)
EmptyMap == [k \in {} |-> 0]

EmptyTable == [cache |-> EmptyMap, dirty |-> {}, persistent |-> EmptyMap]

MapSet(f, key, value) == [k \in (DOMAIN f) \cup {key} |-> IF k = key THEN value ELSE f[k]]

MapDrop(f, key) == [k \in (DOMAIN f) \ {key} |-> f[k]]

cache_exists(T, key) == key \in DOMAIN T.cache \/ key \in DOMAIN T.persistent

\* a get that prefers the persistent table to the cache
cache_get_persistent_first(T, key, default) ==
    IF key \in DOMAIN T.persistent
    THEN [val |-> T.persistent[key],
          T |-> [T EXCEPT !.cache = MapSet(T.cache, key, T.persistent[key])],
          err |-> ""]
    ELSE IF key \in DOMAIN T.cache
    THEN [val |-> T.cache[key], T |-> T, err |-> ""]
    ELSE [val |-> default, T |-> T, err |-> "KeyError"]

\* get: the cached value, else the persistent one, which then fills the cache
cache_get(T, key, default) ==
    IF key \in DOMAIN T.cache
    THEN [val |-> T.cache[key], T |-> T, err |-> ""]
    ELSE IF key \in DOMAIN T.persistent
    THEN [val |-> T.persistent[key],
          T |-> [T EXCEPT !.cache = MapSet(T.cache, key, T.persistent[key])],
          err |-> ""]
    ELSE [val |-> default, T |-> T, err |-> "KeyError"]

cache_set(T, key, value) ==
    [T EXCEPT !.cache = MapSet(T.cache, key, value), !.dirty = T.dirty \cup {key}]

\* a drop that leaves the dirty marker of the key
cache_drop_keeps_dirty(T, key) ==
    [cache |-> MapDrop(T.cache, key),
     dirty |-> T.dirty,
     persistent |-> MapDrop(T.persistent, key)]

cache_drop(T, key) ==
    [cache |-> MapDrop(T.cache, key),
     dirty |-> T.dirty \ {key},
     persistent |-> MapDrop(T.persistent, key)]

\* commit writes the cache entry of every dirty key: it fails on a dirty
\* marker whose entry is gone
commit_error(T) == IF T.dirty \subseteq DOMAIN T.cache THEN "" ELSE "KeyError"

cache_commit(T) ==
    [cache |-> T.cache,
     dirty |-> {},
     persistent |-> [k \in (DOMAIN T.persistent) \cup (T.dirty \cap DOMAIN T.cache) |->
                        IF k \in T.dirty \cap DOMAIN T.cache THEN T.cache[k]
                        ELSE T.persistent[k]]]

(***************************************************************************)
(* The storage: the four cached tables as one record.                      *)
(***************************************************************************)
Store == [atoms |-> atoms, shapes |-> shapes, ops |-> ops, calls |-> calls]

Ok(S) == [S |-> S, err |-> ""]

Fail(S, err) == [S |-> S, err |-> err]

\* Storage.save_ref
RECURSIVE save_ref(_, _), save_elts(_, _, _)
\* the loop of save_ref over the elements of a list, from element i on
save_elts(S, elts, i) ==
    IF i > Len(elts) THEN Ok(S)
    ELSE LET r == save_ref(S, elts[i])
         IN  IF r.err # "" THEN r ELSE save_elts(r.S, elts, i + 1)

\* a save_ref without the check for a known hid
save_ref_unchecked(S, ref) ==
    IF ref.kind = "AtomRef"
    THEN Ok([S EXCEPT !.atoms = cache_set(S.atoms, ref.cid, serialize(ref.obj)),
                      !.shapes = cache_set(S.shapes, ref.hid, detached(ref))])
    ELSE IF ref.kind = "ListRef"
    THEN save_elts([S EXCEPT !.shapes = cache_set(S.shapes, ref.hid, shape(ref))],
                   ref.elts, 1)
    ELSE Fail(S, "NotImplementedError")

save_ref(S, ref) ==
    IF cache_exists(S.shapes, ref.hid) THEN Ok(S)
    ELSE IF ref.kind = "AtomRef"
    THEN Ok([S EXCEPT !.atoms = cache_set(S.atoms, ref.cid, serialize(ref.obj)),
                      !.shapes = cache_set(S.shapes, ref.hid, detached(ref))])
    ELSE IF ref.kind = "ListRef"
    THEN save_elts([S EXCEPT !.shapes = cache_set(S.shapes, ref.hid, shape(ref))],
                   ref.elts, 1)
    ELSE Fail(S, "NotImplementedError")

\* Storage.load_ref
RECURSIVE load_ref(_, _, _), load_elts(_, _, _, _, _)
\* the loop of load_ref over the elements of a list shape: obj collects the
\* loaded children
load_elts(S, elts, lazy, i, obj) ==
    IF i > Len(elts) THEN [S |-> S, err |-> "", obj |-> obj]
    ELSE LET r == load_ref(S, elts[i].hid, lazy)
         IN  IF r.err # "" THEN [S |-> r.S, err |-> r.err, obj |-> obj]
             ELSE load_elts(r.S, elts, lazy, i + 1, Append(obj, r.ref))

\* a load_ref that fetches the payload of an atom also when lazy
load_ref_eager(S, hid, lazy) ==
    LET g == cache_get(S.shapes, hid, NoRef)
        S1 == [S EXCEPT !.shapes = g.T]
        shp == g.val
    IN  IF g.err # "" THEN [S |-> S1, err |-> g.err, ref |-> NoRef]
        ELSE IF shp.kind = "AtomRef"
        THEN LET a == cache_get(S1.atoms, shp.cid, "")
                 S2 == [S1 EXCEPT !.atoms = a.T]
             IN  IF a.err # "" THEN [S |-> S2, err |-> a.err, ref |-> NoRef]
                 ELSE [S |-> S2, err |-> "", ref |-> attached(shp, deserialize(a.val))]
        ELSE IF shp.kind = "ListRef"
        THEN LET l == load_elts(S1, shp.elts, lazy, 1, <<>>)
             IN  IF l.err # "" THEN [S |-> l.S, err |-> l.err, ref |-> NoRef]
                 ELSE [S |-> l.S, err |-> "", ref |-> attached_list(shp, shp.elts)]
        ELSE [S |-> S1, err |-> "NotImplementedError", ref |-> NoRef]

load_ref(S, hid, lazy) ==
    LET g == cache_get(S.shapes, hid, NoRef)
        S1 == [S EXCEPT !.shapes = g.T]
        shp == g.val
    IN  IF g.err # "" THEN [S |-> S1, err |-> g.err, ref |-> NoRef]
        ELSE IF shp.kind = "AtomRef"
        THEN IF lazy THEN [S |-> S1, err |-> "", ref |-> shallow_copy(shp)]
             ELSE LET a == cache_get(S1.atoms, shp.cid, "")
                      S2 == [S1 EXCEPT !.atoms = a.T]
                  IN  IF a.err # "" THEN [S |-> S2, err |-> a.err, ref |-> NoRef]
                      ELSE [S |-> S2, err |-> "",
                            ref |-> attached(shp, deserialize(a.val))]
        ELSE IF shp.kind = "ListRef"
        THEN LET l == load_elts(S1, shp.elts, lazy, 1, <<>>)
             IN  IF l.err # "" THEN [S |-> l.S, err |-> l.err, ref |-> NoRef]
                 ELSE [S |-> l.S, err |-> "", ref |-> attached_list(shp, shp.elts)]
        ELSE [S |-> S1, err |-> "NotImplementedError", ref |-> NoRef]

\* a commit that leaves out the calls table
commit_without_calls(S) ==
    [atoms |-> cache_commit(S.atoms),
     shapes |-> cache_commit(S.shapes),
     ops |-> cache_commit(S.ops),
     calls |-> S.calls]

\* Storage.commit
commit(S) ==
    [atoms |-> cache_commit(S.atoms),
     shapes |-> cache_commit(S.shapes),
     ops |-> cache_commit(S.ops),
     calls |-> cache_commit(S.calls)]

(***************************************************************************)
(* Types: 0 is AtomType, n + 1 is ListType(elt = n).                       *)
(***************************************************************************)
AtomType == 0

ListType(elt) == elt + 1

(***************************************************************************)
(* Ops.  A named mapping (inputs, outputs) is a sequence of                *)
(* [name, ref] entries in insertion order.                                 *)
(***************************************************************************)
Op(name, version, structural) ==
    [name |-> name, version |-> version, structural |-> structural,
     output_names |-> <<"output_0">>]

NoOp == Op("", 0, FALSE)

make_list_op == Op("__make_list__", 0, TRUE)

get_item_op == Op("__get_item__", 0, TRUE)

\* the user ops of the model
inc_op == Op("inc", 0, FALSE)

mutate_op == Op("mutate", 0, FALSE)

split_op == Op("split", 0, FALSE)

total_op == Op("total", 0, FALSE)

UserOps == {inc_op, mutate_op, split_op, total_op}

\* a user op whose function returns a Ref of an unsupported kind
box_op == Op("box", 0, FALSE)

\* a user op whose function returns 0 for every argument
zero_op == Op("zero", 0, FALSE)

\* the next version of the user op inc
inc_v1_op == Op("inc", 1, FALSE)

\* declared type of the single input of a user op
InputTp(op) == IF op.name \in {"total", "mutate"} THEN ListType(AtomType) ELSE AtomType

\* declared type of the output of a user op
OutputTp(op) == IF op.name = "split" THEN ListType(AtomType) ELSE AtomType

InputName(op) == IF op.name \in {"total", "mutate"} THEN "xs" ELSE "x"

Entry(name, ref) == [name |-> name, ref |-> ref]

Bump(n) == (n + 1) % (MaxVal + 1)

RECURSIVE SumOf(_)
SumOf(elts) == IF elts = <<>> THEN 0 ELSE (elts[1].obj + SumOf(Tail(elts))) % (MaxVal + 1)

\* The functions of the user ops on raw values: what they return and what
\* their arguments hold afterwards (mutate appends to its argument in place).
Run(op, raw) ==
    IF op.name = "inc" THEN [returns |-> RawInt(Bump(raw.obj)), after |-> raw]
    ELSE IF op.name = "mutate"
    THEN [returns |-> RawInt(0), after |-> RawList(Append(raw.elts, RawInt(0)))]
    ELSE IF op.name = "split"
    THEN [returns |-> RawList(<<RawInt(raw.obj), RawInt(Bump(raw.obj))>>), after |-> raw]
    ELSE IF op.name = "box"
    THEN [returns |-> OtherRef(get_content_hash("box_cid", <<ToString(raw.obj)>>), "",
                               raw.obj),
          after |-> raw]
    ELSE IF op.name = "zero" THEN [returns |-> RawInt(0), after |-> raw]
    ELSE [returns |-> RawInt(SumOf(raw.elts)), after |-> raw]

\* Op.detached
op_detached(op) == op

HidPart(e) == e.name \o "=" \o e.ref.hid

CidPart(e) == e.name \o "=" \o e.ref.cid

\* Op.get_call_history_id
get_call_history_id(op, inputs) ==
    get_content_hash("call_hid",
        <<op.name, ToString(op.version)>> \o [i \in 1..Len(inputs) |-> HidPart(inputs[i])])

\* Op.get_call_content_id
get_call_content_id(op, inputs) ==
    get_content_hash("call_cid",
        <<op.name, ToString(op.version)>> \o [i \in 1..Len(inputs) |-> CidPart(inputs[i])])

\* Op.get_output_history_ids, for one output name
get_output_history_id(call_history_id, output_name) ==
    get_content_hash("out", <<call_history_id, output_name>>)

\* model.__make_list__
make_list(inputs) ==
    LET elts == [i \in 1..Len(inputs) |-> inputs[i].ref]
    IN  ListRef(get_content_hash("list_cid", [i \in 1..Len(elts) |-> elts[i].cid]),
                get_content_hash("list_hid", [i \in 1..Len(elts) |-> elts[i].hid]),
                TRUE, elts)

\* model.__get_item__: inputs are <<obj, attr>>
get_item(inputs) == inputs[1].ref.elts[inputs[2].ref.obj + 1]

(***************************************************************************)
(* Calls.                                                                  *)
(***************************************************************************)
Call(op, cid, hid, inputs, outputs) ==
    [op |-> op, cid |-> cid, hid |-> hid, inputs |-> inputs, outputs |-> outputs]

NoCall == Call(NoOp, "", "", <<>>, <<>>)

RefIds(e) == [name |-> e.name, hid |-> e.ref.hid, cid |-> e.ref.cid]

\* the row of a call in the calls table
call_data(call) ==
    [cid |-> call.cid, hid |-> call.hid, op_name |-> call.op.name,
     inputs |-> [i \in 1..Len(call.inputs) |-> RefIds(call.inputs[i])],
     outputs |-> [i \in 1..Len(call.outputs) |-> RefIds(call.outputs[i])]]

NoData == call_data(NoCall)

\* Storage.exists_call
exists_call(S, hid) == cache_exists(S.calls, hid)

\* Storage.save_call
RECURSIVE save_refs(_, _, _)
\* the loop of save_call over the input and output refs, from entry i on
save_refs(S, entries, i) ==
    IF i > Len(entries) THEN Ok(S)
    ELSE LET r == save_ref(S, entries[i].ref)
         IN  IF r.err # "" THEN r ELSE save_refs(r.S, entries, i + 1)

\* a save_call without the check for an existing call
save_call_unchecked(S, call) ==
    LET S1 == [S EXCEPT !.ops = cache_set(S.ops, call.op.name, op_detached(call.op))]
        r == save_refs(S1, call.inputs \o call.outputs, 1)
    IN  IF r.err # "" THEN r
        ELSE Ok([r.S EXCEPT !.calls = cache_set(r.S.calls, call.hid, call_data(call))])

\* a save_call that writes the call row through to the durable table
save_call_through(S, call) ==
    IF cache_exists(S.calls, call.hid) THEN Ok(S)
    ELSE LET S1 == IF ~cache_exists(S.ops, call.op.name)
                   THEN [S EXCEPT !.ops = cache_set(S.ops, call.op.name, op_detached(call.op))]
                   ELSE S
             r == save_refs(S1, call.inputs \o call.outputs, 1)
         IN  IF r.err # "" THEN r
             ELSE Ok([r.S EXCEPT !.calls =
                         cache_commit(cache_set(r.S.calls, call.hid, call_data(call)))])

save_call(S, call) ==
    IF cache_exists(S.calls, call.hid) THEN Ok(S)
    ELSE LET S1 == IF ~cache_exists(S.ops, call.op.name)
                   THEN [S EXCEPT !.ops = cache_set(S.ops, call.op.name, op_detached(call.op))]
                   ELSE S
             r == save_refs(S1, call.inputs \o call.outputs, 1)
         IN  IF r.err # "" THEN r
             ELSE Ok([r.S EXCEPT !.calls = cache_set(r.S.calls, call.hid, call_data(call))])

\* Storage.get_call
RECURSIVE load_refs(_, _, _, _, _)
\* load_ref over the named hids of a call row, from entry i on
load_refs(S, ids, lazy, i, acc) ==
    IF i > Len(ids) THEN [S |-> S, err |-> "", entries |-> acc]
    ELSE LET r == load_ref(S, ids[i].hid, lazy)
         IN  IF r.err # "" THEN [S |-> r.S, err |-> r.err, entries |-> acc]
             ELSE load_refs(r.S, ids, lazy, i + 1, Append(acc, Entry(ids[i].name, r.ref)))

get_call(S, hid, lazy) ==
    LET data == IF hid \in DOMAIN S.calls.cache THEN S.calls.cache[hid]
                ELSE IF hid \in DOMAIN S.calls.persistent THEN S.calls.persistent[hid]
                ELSE NoData
        o == cache_get(S.ops, data.op_name, NoOp)
        S1 == [S EXCEPT !.ops = o.T]
        ins == load_refs(S1, data.inputs, lazy, 1, <<>>)
        outs == load_refs(ins.S, data.outputs, lazy, 1, <<>>)
    IN  IF ~exists_call(S, hid) THEN [S |-> S, err |-> "KeyError", call |-> NoCall]
        ELSE IF o.err # "" THEN [S |-> S1, err |-> o.err, call |-> NoCall]
        ELSE IF ins.err # "" THEN [S |-> ins.S, err |-> ins.err, call |-> NoCall]
        ELSE IF outs.err # "" THEN [S |-> outs.S, err |-> outs.err, call |-> NoCall]
        ELSE [S |-> outs.S, err |-> "",
              call |-> Call(o.val, data.cid, data.hid, ins.entries, outs.entries)]

(***************************************************************************)
(* unwrap: refs to raw values.                                             *)
(***************************************************************************)
\* Storage._unwrap_atom
unwrap_atom(S, obj) ==
    IF ~obj.in_memory
    THEN LET r == load_ref(S, obj.hid, FALSE)
         IN  [S |-> r.S, err |-> r.err, raw |-> RawInt(r.ref.obj)]
    ELSE [S |-> S, err |-> "", raw |-> RawInt(obj.obj)]

\* Storage.unwrap: recurse_on_ref_collections(_unwrap_atom, obj)
RECURSIVE unwrap(_, _), unwrap_elts(_, _, _, _)
unwrap_elts(S, elts, i, acc) ==
    IF i > Len(elts) THEN [S |-> S, err |-> "", raw |-> RawList(acc)]
    ELSE LET r == unwrap(S, elts[i])
         IN  IF r.err # "" THEN [S |-> r.S, err |-> r.err, raw |-> RawList(acc)]
             ELSE unwrap_elts(r.S, elts, i + 1, Append(acc, r.raw))

unwrap(S, obj) ==
    IF obj.kind = "AtomRef" THEN unwrap_atom(S, obj)
    ELSE IF obj.kind = "ListRef" THEN unwrap_elts(S, obj.elts, 1, <<>>)
    ELSE [S |-> S, err |-> "", raw |-> obj]

\* a raw value some part of which is None
RECURSIVE HasNone(_)
HasNone(raw) ==
    IF raw.kind = "list" THEN \E i \in 1..Len(raw.elts) : HasNone(raw.elts[i])
    ELSE raw.obj = NoObj

\* the functions that compute with the payloads raise TypeError on None;
\* mutate only appends to its argument
Raises(op, raw) == op.name # "mutate" /\ HasNone(raw)

(***************************************************************************)
(* Structural construction / destruction and call_internal.                *)
(* Each returns the storage it leaves (reads fill the caches), the error   *)
(* raised ("" for none) and ran: the hids of the calls whose function was  *)
(* invoked, in order.                                                      *)
(***************************************************************************)
\* Storage.get_struct_builder
get_struct_builder(tp) == make_list_op

IndexName(i) == "elts_" \o ToString(i - 1)

\* Storage.get_struct_inputs
get_struct_inputs(tp, val) == [i \in 1..Len(val.elts) |-> Entry(IndexName(i), val.elts[i])]

\* Storage.get_struct_tps
get_struct_tps(tp, struct_inputs) == [i \in 1..Len(struct_inputs) |-> tp - 1]

\* bookkeeping: the function of op was invoked for the call with this hid
Ran(op, hid) == [hid |-> hid, structural |-> op.structural]

CallResult(S, err, outputs, main_call, cs, ran) ==
    [S |-> S, err |-> err, outputs |-> outputs, main_call |-> main_call,
     calls |-> cs, ran |-> ran]

RefResult(S, err, ref, cs, ran) ==
    [S |-> S, err |-> err, ref |-> ref, calls |-> cs, ran |-> ran]

RECURSIVE construct(_, _, _), destruct(_, _, _), destruct_elts(_, _, _, _, _, _, _),
          call_internal(_, _, _, _), wrap_inputs(_, _, _, _, _, _, _),
          cids_after(_, _, _, _, _, _), wrap_outputs(_, _, _, _, _, _, _, _)

\* construct: the result, from the call r of the struct builder
construct_result(r) ==
    IF r.err # "" THEN RefResult(r.S, r.err, NoRef, <<>>, r.ran)
    ELSE RefResult(r.S, "", r.main_call.outputs[1].ref, Append(r.calls, r.main_call), r.ran)

\* Storage.construct
construct(S, tp, val) ==
    IF IsRef(val) THEN RefResult(S, "", val, <<>>, <<>>)
    ELSE IF tp = AtomType THEN RefResult(S, "", wrap_atom(val.obj, ""), <<>>, <<>>)
    ELSE construct_result(
             call_internal(S, get_struct_builder(tp), get_struct_inputs(tp, val),
                           get_struct_tps(tp, get_struct_inputs(tp, val))))

\* a destruct that returns the get-element calls of the outer level only
destruct_next_outer(ref, tp, i, new_elts, destr_calls, ran, g, d) ==
    IF d.err # "" THEN RefResult(d.S, d.err, NoRef, destr_calls, ran \o g.ran \o d.ran)
    ELSE destruct_elts(d.S, ref, tp, i + 1, Append(new_elts, d.ref),
                       Append(destr_calls, g.main_call), ran \o g.ran \o d.ran)

\* destruct, the loop body after the recursive destruct d of element i,
\* which the get-item call g returned
destruct_next(ref, tp, i, new_elts, destr_calls, ran, g, d) ==
    IF d.err # "" THEN RefResult(d.S, d.err, NoRef, destr_calls, ran \o g.ran \o d.ran)
    ELSE destruct_elts(d.S, ref, tp, i + 1, Append(new_elts, d.ref),
                       Append(destr_calls, g.main_call) \o d.calls, ran \o g.ran \o d.ran)

\* a destruct that keeps the elements of ref as they are
destruct_item_keeping(ref, tp, i, new_elts, destr_calls, ran, g) ==
    IF g.err # "" THEN RefResult(g.S, g.err, NoRef, destr_calls, ran \o g.ran)
    ELSE destruct_next(ref, tp, i, new_elts, destr_calls, ran, g,
                       destruct(g.S, ref.elts[i], tp - 1))

\* destruct, the loop body after the get-item call g of element i
destruct_item(ref, tp, i, new_elts, destr_calls, ran, g) ==
    IF g.err # "" THEN RefResult(g.S, g.err, NoRef, destr_calls, ran \o g.ran)
    ELSE destruct_next(ref, tp, i, new_elts, destr_calls, ran, g,
                       destruct(g.S, g.outputs[1].ref, tp - 1))

\* destruct, the loop over the elements of ref, from element i on
destruct_elts(S, ref, tp, i, new_elts, destr_calls, ran) ==
    IF i > Len(ref.elts)
    THEN RefResult(S, "", ListRef(ref.cid, ref.hid, TRUE, new_elts), destr_calls, ran)
    ELSE destruct_item(ref, tp, i, new_elts, destr_calls, ran,
                       call_internal(S, get_item_op,
                                     <<Entry("obj", ref), Entry("attr", RawInt(i - 1))>>,
                                     <<tp - 1, AtomType>>))

\* Storage.destruct
destruct(S, ref, tp) ==
    IF ref.kind = "AtomRef" THEN RefResult(S, "", ref, <<>>, <<>>)
    ELSE IF ref.kind = "ListRef"
    THEN IF tp = AtomType THEN RefResult(S, "AssertionError", NoRef, <<>>, <<>>)
         ELSE destruct_elts(S, ref, tp, 1, <<>>, <<>>, <<>>)
    ELSE RefResult(S, "NotImplementedError", NoRef, <<>>, <<>>)

\* call_internal, "wrap the inputs": the loop body after construct c of input i
wrap_input(inputs, input_tps, i, wrapped, input_calls, ran, c) ==
    IF c.err # "" THEN CallResult(c.S, c.err, wrapped, NoCall, input_calls, ran \o c.ran)
    ELSE wrap_inputs(c.S, inputs, input_tps, i + 1,
                     Append(wrapped, Entry(inputs[i].name, c.ref)),
                     input_calls \o c.calls, ran \o c.ran)

\* call_internal, "wrap the inputs": the loop over the inputs from entry i on
wrap_inputs(S, inputs, input_tps, i, wrapped, input_calls, ran) ==
    IF i > Len(inputs) THEN CallResult(S, "", wrapped, NoCall, input_calls, ran)
    ELSE wrap_input(inputs, input_tps, i, wrapped, input_calls, ran,
                    construct(S, input_tps[i], inputs[i].ref))

\* call_internal, the side-effect guard: the loop body after construct c of
\* raw value i
cid_after(raw_values, input_tps, i, acc, ran, c) ==
    IF c.err # "" THEN [S |-> c.S, err |-> c.err, cids |-> acc, ran |-> ran \o c.ran]
    ELSE cids_after(c.S, raw_values, input_tps, i + 1, Append(acc, c.ref.cid), ran \o c.ran)

\* call_internal, the side-effect guard: the cids of the raw values after
\* the call, rebuilt with construct, from entry i on
cids_after(S, raw_values, input_tps, i, acc, ran) ==
    IF i > Len(raw_values) THEN [S |-> S, err |-> "", cids |-> acc, ran |-> ran]
    ELSE cid_after(raw_values, input_tps, i, acc, ran,
                   construct(S, input_tps[i], raw_values[i]))

\* call_internal, "wrap the outputs", composite output i: after destruct
wrap_final(op, outputs_dict, call_history_id, i, wrapped_outputs, output_calls, ran, final) ==
    IF final.err # ""
    THEN CallResult(final.S, final.err, wrapped_outputs, NoCall, output_calls,
                    ran \o final.ran)
    ELSE wrap_outputs(final.S, op, outputs_dict, call_history_id, i + 1,
                      Append(wrapped_outputs, Entry(outputs_dict[i].name, final.ref)),
                      output_calls \o final.calls, ran \o final.ran)

\* call_internal, "wrap the outputs", composite output i: after construct
wrap_start(op, outputs_dict, call_history_id, i, wrapped_outputs, output_calls, ran, start) ==
    IF start.err # ""
    THEN CallResult(start.S, start.err, wrapped_outputs, NoCall, output_calls,
                    ran \o start.ran)
    ELSE wrap_final(op, outputs_dict, call_history_id, i, wrapped_outputs, output_calls,
                    ran \o start.ran,
                    destruct(start.S,
                             with_hid(start.ref,
                                      get_output_history_id(call_history_id,
                                                            outputs_dict[i].name)),
                             OutputTp(op)))

\* a "wrap the outputs" that derives the hid of an output from its content
wrap_outputs_by_content(S, op, outputs_dict, call_history_id, i, wrapped_outputs, output_calls, ran) ==
    IF i > Len(outputs_dict)
    THEN CallResult(S, "", wrapped_outputs, NoCall, output_calls, ran)
    ELSE IF IsRef(outputs_dict[i].ref) \/ OutputTp(op) = AtomType
    THEN LET k == outputs_dict[i].name
             v == outputs_dict[i].ref
         IN  wrap_outputs(S, op, outputs_dict, call_history_id, i + 1,
                          Append(wrapped_outputs,
                                 Entry(k, IF IsRef(v) THEN v ELSE wrap_atom(v.obj, ""))),
                          output_calls, ran)
    ELSE wrap_start(op, outputs_dict, call_history_id, i, wrapped_outputs, output_calls,
                    ran, construct(S, OutputTp(op), outputs_dict[i].ref))

\* call_internal, "wrap the outputs": the loop over the outputs from entry i on
wrap_outputs(S, op, outputs_dict, call_history_id, i, wrapped_outputs, output_calls, ran) ==
    IF i > Len(outputs_dict)
    THEN CallResult(S, "", wrapped_outputs, NoCall, output_calls, ran)
    ELSE IF IsRef(outputs_dict[i].ref) \/ OutputTp(op) = AtomType
    THEN LET k == outputs_dict[i].name
             v == outputs_dict[i].ref
             out_hid == get_output_history_id(call_history_id, k)
         IN  wrap_outputs(S, op, outputs_dict, call_history_id, i + 1,
                          Append(wrapped_outputs,
                                 Entry(k, IF IsRef(v) THEN with_hid(v, out_hid)
                                          ELSE wrap_atom(v.obj, out_hid))),
                          output_calls, ran)
    ELSE wrap_start(op, outputs_dict, call_history_id, i, wrapped_outputs, output_calls,
                    ran, construct(S, OutputTp(op), outputs_dict[i].ref))

\* a call_internal that saves the call it returns
finish_call_saving(op, w, call_history_id, o) ==
    LET main_call == Call(op, get_call_content_id(op, w.outputs), call_history_id,
                          w.outputs, o.outputs)
    IN  IF o.err # "" THEN CallResult(o.S, o.err, <<>>, NoCall, <<>>, o.ran)
        ELSE CallResult(save_call(o.S, main_call).S, "", main_call.outputs, main_call,
                        w.calls \o o.calls, o.ran)

\* call_internal, the end: the main call from the wrapped inputs w and the
\* wrapped outputs o
finish_call(op, w, call_history_id, o) ==
    LET call_content_id == get_call_content_id(op, w.outputs)
        main_call == Call(op, call_content_id, call_history_id, w.outputs, o.outputs)
    IN  IF o.err # "" THEN CallResult(o.S, o.err, <<>>, NoCall, <<>>, o.ran)
        ELSE CallResult(o.S, "", main_call.outputs, main_call, w.calls \o o.calls, o.ran)

\* a call_internal without the side-effect guard
guard_call_absent(op, w, call_history_id, returns, after) ==
    IF after.err # ""
    THEN CallResult(after.S, after.err, <<>>, NoCall, <<>>,
                    w.ran \o <<Ran(op, call_history_id)>> \o after.ran)
    ELSE finish_call(op, w, call_history_id,
                     wrap_outputs(after.S, op, <<Entry(op.output_names[1], returns)>>,
                                  call_history_id, 1, <<>>, <<>>,
                                  w.ran \o <<Ran(op, call_history_id)>> \o after.ran))

\* call_internal, the side-effect guard: compare the cids of the inputs
\* before the call with those after it
guard_call(op, w, call_history_id, returns, after) ==
    LET cids_before == [i \in 1..Len(w.outputs) |-> w.outputs[i].ref.cid]
        changed_inputs == {i \in 1..Len(cids_before) : cids_before[i] # after.cids[i]}
        ran == w.ran \o <<Ran(op, call_history_id)>> \o after.ran
    IN  IF after.err # "" THEN CallResult(after.S, after.err, <<>>, NoCall, <<>>, ran)
        ELSE IF changed_inputs # {}
        THEN CallResult(after.S, "ValueError", <<>>, NoCall, <<>>, ran)
        ELSE finish_call(op, w, call_history_id,
                         wrap_outputs(after.S, op, <<Entry(op.output_names[1], returns)>>,
                                      call_history_id, 1, <<>>, <<>>, ran))

\* call_internal, a user op: call the function on the unwrapped inputs u
execute_call(op, input_tps, w, call_history_id, u) ==
    IF u.err # "" THEN CallResult(u.S, u.err, <<>>, NoCall, <<>>, w.ran)
    ELSE IF Raises(op, u.raw)
    THEN CallResult(u.S, "TypeError", <<>>, NoCall, <<>>, w.ran \o <<Ran(op, call_history_id)>>)
    ELSE guard_call(op, w, call_history_id, Run(op, u.raw).returns,
                    cids_after(u.S, <<Run(op, u.raw).after>>, input_tps, 1, <<>>, <<>>))

\* a memo hit that returns the stored outputs under the hids of the inputs
memo_hit_inputs(w, hit) ==
    IF hit.err # "" THEN CallResult(hit.S, hit.err, <<>>, NoCall, <<>>, w.ran)
    ELSE LET swapped == Call(hit.call.op, hit.call.cid, hit.call.hid, hit.call.inputs,
                             [i \in 1..Len(hit.call.outputs) |->
                                 Entry(hit.call.outputs[i].name, hit.call.inputs[1].ref)])
         IN  CallResult(hit.S, "", swapped.outputs, swapped, w.calls, w.ran)

\* call_internal, the memo hit: the stored call
memo_hit(w, hit) ==
    IF hit.err # "" THEN CallResult(hit.S, hit.err, <<>>, NoCall, <<>>, w.ran)
    ELSE CallResult(hit.S, "", hit.call.outputs, hit.call, w.calls, w.ran)

\* a call_internal without the memo check
check_call_always_executes(op, input_tps, w) ==
    LET call_history_id == get_call_history_id(op, w.outputs)
    IN  IF w.err # "" THEN CallResult(w.S, w.err, <<>>, NoCall, <<>>, w.ran)
        ELSE IF op.structural
        THEN finish_call(op, w, call_history_id,
                 wrap_outputs(w.S, op,
                              <<Entry(op.output_names[1],
                                      IF op.name = "__make_list__" THEN make_list(w.outputs)
                                      ELSE get_item(w.outputs))>>,
                              call_history_id, 1, <<>>, <<>>,
                              w.ran \o <<Ran(op, call_history_id)>>))
        ELSE execute_call(op, input_tps, w, call_history_id,
                          unwrap(w.S, w.outputs[1].ref))

\* a call_internal that keys the memo table by the content of the inputs
check_call_by_content(op, input_tps, w) ==
    LET call_history_id ==
            get_content_hash("call_hid",
                <<op.name, ToString(op.version)>> \o
                [i \in 1..Len(w.outputs) |-> CidPart(w.outputs[i])])
    IN  IF w.err # "" THEN CallResult(w.S, w.err, <<>>, NoCall, <<>>, w.ran)
        ELSE IF exists_call(w.S, call_history_id)
        THEN memo_hit(w, get_call(w.S, call_history_id, TRUE))
        ELSE IF op.structural
        THEN finish_call(op, w, call_history_id,
                 wrap_outputs(w.S, op,
                              <<Entry(op.output_names[1],
                                      IF op.name = "__make_list__" THEN make_list(w.outputs)
                                      ELSE get_item(w.outputs))>>,
                              call_history_id, 1, <<>>, <<>>,
                              w.ran \o <<Ran(op, call_history_id)>>))
        ELSE execute_call(op, input_tps, w, call_history_id,
                          unwrap(w.S, w.outputs[1].ref))

\* call_internal, after "wrap the inputs" has returned w
check_call(op, input_tps, w) ==
    LET call_history_id == get_call_history_id(op, w.outputs)
    IN  IF w.err # "" THEN CallResult(w.S, w.err, <<>>, NoCall, <<>>, w.ran)
        ELSE IF exists_call(w.S, call_history_id)
        THEN memo_hit(w, get_call(w.S, call_history_id, TRUE))
        ELSE IF op.structural
        THEN finish_call(op, w, call_history_id,
                 wrap_outputs(w.S, op,
                              <<Entry(op.output_names[1],
                                      IF op.name = "__make_list__" THEN make_list(w.outputs)
                                      ELSE get_item(w.outputs))>>,
                              call_history_id, 1, <<>>, <<>>,
                              w.ran \o <<Ran(op, call_history_id)>>))
        ELSE execute_call(op, input_tps, w, call_history_id,
                          unwrap(w.S, w.outputs[1].ref))

\* Storage.call_internal
call_internal(S, op, inputs, input_tps) ==
    check_call(op, input_tps, wrap_inputs(S, inputs, input_tps, 1, <<>>, <<>>, <<>>))

(***************************************************************************)
(* Garbage collection and dropping of calls.                               *)
(***************************************************************************)
\* an in_context that never sees an open context
in_context_never == FALSE

\* Storage.in_context
in_context == current_context # "None"

RowIds(row) == {row.inputs[i] : i \in 1..Len(row.inputs)} \cup
               {row.outputs[i] : i \in 1..Len(row.outputs)}

\* call_storage.get_df(): the (call, ref) rows of the durable call table
get_df(S) == UNION {RowIds(S.calls.persistent[h]) : h \in DOMAIN S.calls.persistent}

\* Storage.get_orphans
get_orphans(S) ==
    LET all_hids == DOMAIN S.shapes.persistent
        hids_in_calls == {r.hid : r \in get_df(S)}
    IN  all_hids \ hids_in_calls

\* Storage.get_unreferenced_cids
get_unreferenced_cids(S) ==
    LET all_cids == DOMAIN S.atoms.persistent
        cids_in_calls == {r.cid : r \in get_df(S)}
        cids_in_shapes == {S.shapes.persistent[h].cid : h \in DOMAIN S.shapes.persistent}
    IN  (all_cids \ cids_in_calls) \ cids_in_shapes

RECURSIVE DropAll(_, _)
\* drop every key of a set from a cached table
DropAll(T, keys) ==
    IF keys = {} THEN T
    ELSE LET k == CHOOSE x \in keys : TRUE IN DropAll(cache_drop(T, k), keys \ {k})

\* a cleanup_refs that selects the unreferenced cids before it drops the
\* orphaned shapes
cleanup_refs_content_first(S) ==
    LET S1 == [S EXCEPT !.atoms = DropAll(S.atoms, get_unreferenced_cids(S))]
    IN  [S1 EXCEPT !.shapes = DropAll(S1.shapes, get_orphans(S1))]

\* Storage.cleanup_refs (with _drop_ref_hid and _drop_ref)
cleanup_refs(S) ==
    LET S1 == [S EXCEPT !.shapes = DropAll(S.shapes, get_orphans(S))]
    IN  [S1 EXCEPT !.atoms = DropAll(S1.atoms, get_unreferenced_cids(S1))]

\* call_storage.get_dependents: the durable calls that consume, directly or
\* through other calls, an output of the given calls
RECURSIVE get_dependents(_, _)
get_dependents(S, call_hids) ==
    LET rows == S.calls.persistent
        outs == UNION {{rows[h].outputs[i].hid : i \in 1..Len(rows[h].outputs)} :
                       h \in call_hids \cap DOMAIN rows}
        more == {h \in DOMAIN rows :
                    \E i \in 1..Len(rows[h].inputs) : rows[h].inputs[i].hid \in outs}
    IN  IF more \subseteq call_hids THEN call_hids
        ELSE get_dependents(S, call_hids \cup more)

\* a drop_calls that drops the calls from the cache only
drop_calls_cached(S, hids, delete_dependents) ==
    LET all == IF delete_dependents THEN get_dependents(S, hids) ELSE hids
    IN  [S EXCEPT !.calls.cache = [k \in DOMAIN S.calls.cache \ all |-> S.calls.cache[k]],
                  !.calls.dirty = S.calls.dirty \ all]

\* Storage.drop_calls
drop_calls(S, hids, delete_dependents) ==
    LET all == IF delete_dependents THEN get_dependents(S, hids) ELSE hids
    IN  [S EXCEPT !.calls = DropAll(S.calls, all)]

(***************************************************************************)
(* Provenance queries.                                                     *)
(***************************************************************************)
\* call_storage.get_creator_hids: the durable calls with one of the refs as
\* an output
get_creator_hids(S, ref_hids) ==
    {h \in DOMAIN S.calls.persistent :
        \E i \in 1..Len(S.calls.persistent[h].outputs) :
            S.calls.persistent[h].outputs[i].hid \in ref_hids}

\* call_storage.get_consumer_hids: the durable calls with one of the refs as
\* an input
get_consumer_hids(S, ref_hids) ==
    {h \in DOMAIN S.calls.persistent :
        \E i \in 1..Len(S.calls.persistent[h].inputs) :
            S.calls.persistent[h].inputs[i].hid \in ref_hids}

\* get_call(call_hid, lazy=True) for each of the call hids
RECURSIVE get_calls(_, _)
\* the loop body after get_call has returned r for the call hid h
get_calls_next(call_hids, h, r) ==
    IF r.err # "" THEN Fail(r.S, r.err) ELSE get_calls(r.S, call_hids \ {h})

get_calls(S, call_hids) ==
    IF call_hids = {} THEN Ok(S)
    ELSE get_calls_next(call_hids, CHOOSE x \in call_hids : TRUE,
                        get_call(S, CHOOSE x \in call_hids : TRUE, TRUE))

\* Storage.get_creators, after the check for an open context
get_creators(S, ref_hids) == get_calls(S, get_creator_hids(S, ref_hids))

\* Storage.get_consumers, after the check for an open context
get_consumers(S, ref_hids) == get_calls(S, get_consumer_hids(S, ref_hids))

(***************************************************************************)
(* The relational-storage version, mandala/ui/storage.py: an object cache  *)
(* and a call cache, each a key-value store with a set of dirty entries,   *)
(* in front of the relational store, and the signatures of the memoized    *)
(* functions.                                                              *)
(***************************************************************************)
\* InMemoryStorage()
kv_empty == [data |-> EmptyMap, dirty |-> {}]

\* KVStore.set: the entry is written and marked dirty
kv_set(K, k, v) == [data |-> MapSet(K.data, k, v), dirty |-> K.dirty \cup {k}]

\* KVStore.exists
kv_exists(K, k) == k \in DOMAIN K.data

\* KVStore.delete
kv_delete(K, k) == [K EXCEPT !.data = MapDrop(K.data, k)]

\* KVStore.is_clean
kv_is_clean(K) == K.dirty = {}

\* a value reference of the relational version
VRef(uid, causal_uid) == [uid |-> uid, causal_uid |-> causal_uid]

\* Ref.unlinked(keep_causal=False)
unlinked(vref) == VRef(vref.uid, "")

\* a call of the relational version
UiCall(causal_uid, uid, inputs, outputs) ==
    [causal_uid |-> causal_uid, uid |-> uid, inputs |-> inputs, outputs |-> outputs]

\* a function signature: internal name, name shown to the user, input names
Signature(internal_name, ui_name, input_names) ==
    [internal_name |-> internal_name, ui_name |-> ui_name, input_names |-> input_names]

\* a memoized function object
FuncInterface(sig) ==
    [sig |-> sig, is_synchronized |-> FALSE, is_invalidated |-> FALSE, storage_id |-> ""]

NoFunc == FuncInterface(Signature("", "", {}))

\* no Storage has been constructed
NoUi ==
    [open |-> FALSE, evict_on_commit |-> FALSE, obj_cache |-> kv_empty,
     call_cache_by_causal |-> kv_empty, call_cache_by_uid |-> kv_empty,
     objs |-> EmptyMap, calls |-> EmptyMap, sigs |-> EmptyMap, func |-> NoFunc]

\* a result of an operation of the relational version
UiOk(u) == [u |-> u, err |-> ""]

UiFail(u, err) == [u |-> u, err |-> err]

\* ui Storage.__init__: empty caches over a new database that holds the
\* signature of a builtin op
ui_init(evict_on_commit) ==
    [NoUi EXCEPT !.open = TRUE, !.evict_on_commit = evict_on_commit,
                 !.sigs = MapSet(EmptyMap, "__list__",
                                 Signature("__list__", "__list__", {"elts"}))]

\* ui Storage.cache_obj
cache_obj(u, obj_uid, vref) ==
    [u EXCEPT !.obj_cache = kv_set(u.obj_cache, obj_uid, unlinked(vref))]

RECURSIVE cache_objs(_, _, _)
\* cache_call_and_objs, the loop over the refs of the call from ref i on
cache_objs(u, vrefs, i) ==
    IF i > Len(vrefs) THEN u
    ELSE cache_objs(cache_obj(u, vrefs[i].uid, vrefs[i]), vrefs, i + 1)

\* ui Storage.cache_call
cache_call(u, causal_uid, call) ==
    [u EXCEPT !.call_cache_by_causal = kv_set(u.call_cache_by_causal, causal_uid, call),
              !.call_cache_by_uid = kv_set(u.call_cache_by_uid, call.uid, call)]

\* ui Storage.cache_call_and_objs
cache_call_and_objs(u, call) ==
    cache_call(cache_objs(u, call.inputs \o call.outputs, 1), call.causal_uid, call)

RECURSIVE preload_set(_, _)
\* preload_objs, the loop that puts the objects read from the database in
\* the cache
preload_set(u, uids) ==
    IF uids = {} THEN u
    ELSE LET uid == CHOOSE x \in uids : TRUE
         IN  preload_set([u EXCEPT !.obj_cache = kv_set(u.obj_cache, uid, u.objs[uid])],
                         uids \ {uid})

\* ui Storage.preload_objs
preload_objs(u, uids) ==
    LET uids_not_in_cache == {uid \in uids : ~kv_exists(u.obj_cache, uid)}
    IN  IF uids_not_in_cache \subseteq DOMAIN u.objs
        THEN UiOk(preload_set(u, uids_not_in_cache))
        ELSE UiFail(u, "KeyError")

RECURSIVE kv_delete_all(_, _)
\* evict_caches, one loop: delete every key of the store
kv_delete_all(K, keys) ==
    IF keys = {} THEN K
    ELSE LET k == CHOOSE x \in keys : TRUE IN kv_delete_all(kv_delete(K, k), keys \ {k})

\* ui Storage.evict_caches
evict_caches(u) ==
    [u EXCEPT !.call_cache_by_causal =
                  kv_delete_all(u.call_cache_by_causal, DOMAIN u.call_cache_by_causal.data),
              !.obj_cache = kv_delete_all(u.obj_cache, DOMAIN u.obj_cache.data)]

\* the refs of a set of calls, by uid
RefsOf(cs) ==
    LET vrefs == UNION {{(c.inputs \o c.outputs)[i] : i \in 1..Len(c.inputs \o c.outputs)} :
                        c \in cs}
    IN  [uid \in {v.uid : v \in vrefs} |-> CHOOSE v \in vrefs : v.uid = uid]

\* RelAdapter.obj_sets
obj_sets(u, new_objs) ==
    [u EXCEPT !.objs = [uid \in DOMAIN u.objs \cup DOMAIN new_objs |->
                            IF uid \in DOMAIN new_objs THEN new_objs[uid] ELSE u.objs[uid]]]

\* RelAdapter.upsert_calls
upsert_calls(u, new_calls) ==
    [u EXCEPT !.calls = [c \in DOMAIN u.calls \cup {x.causal_uid : x \in new_calls} |->
                            IF \E x \in new_calls : x.causal_uid = c
                            THEN CHOOSE x \in new_calls : x.causal_uid = c
                            ELSE u.calls[c]]]

\* commit, from the write to the database on
ui_commit_write(u, new_objs, new_calls) ==
    LET written_u == upsert_calls(obj_sets(u, new_objs), new_calls)
        evicted == IF u.evict_on_commit THEN evict_caches(written_u) ELSE written_u
    IN  UiOk([evicted EXCEPT !.obj_cache.dirty = {}, !.call_cache_by_causal.dirty = {}])

\* a commit that evicts the caches before it reads the dirty entries
ui_commit_evict_first(u, calls_is_None, cs) ==
    LET e == IF u.evict_on_commit THEN evict_caches(u) ELSE u
    IN  IF calls_is_None
        THEN IF e.obj_cache.dirty \subseteq DOMAIN e.obj_cache.data
                /\ e.call_cache_by_causal.dirty \subseteq DOMAIN e.call_cache_by_causal.data
             THEN ui_commit_write(e,
                      [key \in e.obj_cache.dirty |-> e.obj_cache.data[key]],
                      {e.call_cache_by_causal.data[key] :
                           key \in e.call_cache_by_causal.dirty})
             ELSE UiFail(e, "KeyError")
        ELSE ui_commit_write(e, RefsOf(cs), cs)

\* ui Storage.commit(calls): calls is None, or cs is the set of calls given
ui_commit(u, calls_is_None, cs) ==
    IF calls_is_None
    THEN IF u.obj_cache.dirty \subseteq DOMAIN u.obj_cache.data
            /\ u.call_cache_by_causal.dirty \subseteq DOMAIN u.call_cache_by_causal.data
         THEN ui_commit_write(u,
                  [key \in u.obj_cache.dirty |-> u.obj_cache.data[key]],
                  {u.call_cache_by_causal.data[key] : key \in u.call_cache_by_causal.dirty})
         ELSE UiFail(u, "KeyError")
    ELSE ui_commit_write(u, RefsOf(cs), cs)

\* ui Storage.is_clean
is_clean(u) == kv_is_clean(u.call_cache_by_causal) /\ kv_is_clean(u.obj_cache)

\* the stored signature that has this name for the user, if any
StoredAs(u, ui_name) == {k \in DOMAIN u.sigs : u.sigs[k].ui_name = ui_name}

\* SigSyncer.sync_from_local: the stored signature of this name, created
\* under a new internal name when there is none
sync_from_local(u, sig) ==
    IF StoredAs(u, sig.ui_name) # {}
    THEN [u |-> u, sig |-> u.sigs[CHOOSE k \in StoredAs(u, sig.ui_name) : TRUE]]
    ELSE LET internal == "fn_" \o ToString(Cardinality(DOMAIN u.sigs))
             new_sig == Signature(internal, sig.ui_name, sig.input_names)
         IN  [u |-> [u EXCEPT !.sigs = MapSet(u.sigs, internal, new_sig)], sig |-> new_sig]

\* ui Storage.synchronize_op, applied to the function object of u
synchronize_op(u) ==
    LET r == sync_from_local(u, u.func.sig)
    IN  [r.u EXCEPT !.func.sig = r.sig]

\* ui Storage.synchronize
synchronize(u) ==
    IF u.func.is_invalidated THEN UiFail(u, "RuntimeError")
    ELSE IF u.func.is_synchronized
    THEN IF u.func.storage_id # "storage" THEN UiFail(u, "RuntimeError") ELSE UiOk(u)
    ELSE UiOk([synchronize_op(u) EXCEPT !.func.is_synchronized = TRUE,
                                        !.func.storage_id = "storage"])

\* FuncInterface.invalidate
invalidate(u) == [u EXCEPT !.func.is_invalidated = TRUE]

\* a precondition check that lets every rename pass
check_rename_precondition_absent(u) == ""

\* ui Storage._check_rename_precondition: the error it raises, "" for none
check_rename_precondition(u) ==
    IF ~u.func.is_synchronized THEN "RuntimeError"
    ELSE IF ~is_clean(u) THEN "RuntimeError"
    ELSE ""

\* SigSyncer.sync_rename_sig
sync_rename_sig(u, sig, new_name) ==
    IF StoredAs(u, new_name) # {} \/ sig.internal_name \notin DOMAIN u.sigs
    THEN UiFail(u, "ValueError")
    ELSE UiOk([u EXCEPT !.sigs[sig.internal_name].ui_name = new_name])

\* SigSyncer.sync_rename_input
sync_rename_input(u, sig, input_name, new_input_name) ==
    IF sig.internal_name \notin DOMAIN u.sigs THEN UiFail(u, "ValueError")
    ELSE IF input_name \notin u.sigs[sig.internal_name].input_names
            \/ new_input_name \in u.sigs[sig.internal_name].input_names
    THEN UiFail(u, "ValueError")
    ELSE UiOk([u EXCEPT !.sigs[sig.internal_name].input_names =
                            (@ \ {input_name}) \cup {new_input_name}])

\* rename_func and rename_arg, after the signature was renamed leaving r
after_rename(r) == IF r.err # "" THEN r ELSE UiOk(invalidate(r.u))

\* ui Storage.rename_func
rename_func(u, new_name) ==
    IF check_rename_precondition(u) # "" THEN UiFail(u, check_rename_precondition(u))
    ELSE after_rename(sync_rename_sig(u, u.func.sig, new_name))

\* ui Storage.rename_arg
rename_arg(u, name, new_name) ==
    IF check_rename_precondition(u) # "" THEN UiFail(u, check_rename_precondition(u))
    ELSE after_rename(sync_rename_input(u, u.func.sig, name, new_name))

(***************************************************************************)
(* mandala_lite: the Context object, its stack of backed-up attributes and *)
(* the global pointer to the active context.                               *)
(***************************************************************************)
\* the number of `with` levels of the model
MaxLevels == 2

\* the attributes a context may update
ContextKeys == {"storage", "mode", "lazy"}

\* Context.__init__ with the defaults, and GlobalContext.current = None;
\* entered holds, per `with` block that is active, the attributes before its
\* __enter__
NewContext ==
    [attrs |-> [storage |-> "None", mode |-> "run", lazy |-> "False"],
     updates |-> EmptyMap,
     updates_stack |-> <<>>,
     current |-> "None",
     entered |-> <<>>]

\* a result of a method of Context
CtxOk(c) == [c |-> c, err |-> ""]

CtxFail(c, err) == [c |-> c, err |-> err]

\* Context.__call__
Context_call(c, storage, updates) ==
    [c EXCEPT !.updates = [k \in {"storage"} \cup DOMAIN updates |->
                              IF k \in DOMAIN updates THEN updates[k] ELSE storage]]

\* Context._backup_state
backup_state(c, keys) == [k \in keys |-> c.attrs[k]]

\* __enter__, the updates applied to the attributes
apply_updates(c) ==
    [c EXCEPT !.attrs = [k \in DOMAIN c.attrs |->
                            IF k \in DOMAIN c.updates /\ c.updates[k] # "None"
                            THEN c.updates[k] ELSE c.attrs[k]]]

\* __enter__ from the verification of the update keys on; sync_fails tells
\* whether storage.sync_from_remote() raises
enter_verified(c, sync_fails) ==
    IF ~(DOMAIN c.updates \subseteq ContextKeys) THEN CtxFail(c, "ValueError")
    ELSE LET pushed == [c EXCEPT !.updates_stack =
                                     Append(@, backup_state(c, DOMAIN c.updates))]
             applied == apply_updates(pushed)
         IN  IF applied.attrs.storage # "None" /\ sync_fails
             THEN CtxFail(applied, "RemoteError")
             ELSE CtxOk(applied)

\* Context.__enter__
Context_enter(c, sync_fails) ==
    enter_verified(IF c.current = "None" THEN [c EXCEPT !.current = "Context"] ELSE c,
                   sync_fails)

\* Context._undo_updates
undo_updates(c) ==
    IF c.updates_stack = <<>> THEN CtxFail(c, "RuntimeError")
    ELSE LET ascent_updates == c.updates_stack[Len(c.updates_stack)]
             popped == [c EXCEPT !.updates_stack = SubSeq(@, 1, Len(@) - 1),
                                 !.attrs = [k \in DOMAIN c.attrs |->
                                               IF k \in DOMAIN ascent_updates
                                               THEN ascent_updates[k] ELSE c.attrs[k]]]
         IN  CtxOk(IF Len(popped.updates_stack) = 0
                   THEN [popped EXCEPT !.current = "None"] ELSE popped)

\* __exit__ after _undo_updates has left r: exc is the exception of the
\* commit and the sync, exc_type the one of the block
exit_raise(r, exc, exc_type) ==
    IF r.err # "" THEN r
    ELSE IF exc # "" THEN CtxFail(r.c, exc)
    ELSE IF exc_type # "" THEN CtxFail(r.c, exc_type)
    ELSE r

\* Context.__exit__; commit_fails tells whether storage.commit() or
\* storage.sync_to_remote() raises
Context_exit(c, commit_fails, exc_type) ==
    exit_raise(undo_updates(c),
               IF c.attrs.storage = "None" THEN "AttributeError"
               ELSE IF commit_fails THEN "RemoteError" ELSE "",
               exc_type)

(***************************************************************************)
(* The state machine.                                                      *)
(***************************************************************************)
Last(op, fn, err, hid, existed, ref, ran, reran) ==
    [op |-> op, fn |-> fn, err |-> err, hid |-> hid, existed |-> existed, ref |-> ref,
     ran |-> ran, reran |-> reran]

Did(op, err, hid, existed, ref) == Last(op, "", err, hid, existed, ref, <<>>, FALSE)

Init ==
    /\ atoms = EmptyTable
    /\ shapes = EmptyTable
    /\ ops = EmptyTable
    /\ calls = EmptyTable
    /\ current_context = "None"
    /\ nesting = 0
    /\ last = Did("init", "", "", FALSE, NoRef)
    /\ pending = <<>>
    /\ held = NoRef
    /\ invoked = {}
    /\ steps = [calls |-> 0, crashes |-> 0, drops |-> 0]
    /\ written = EmptyMap
    /\ ui = NoUi
    /\ lite = NewContext

SetStore(S) ==
    /\ atoms' = S.atoms
    /\ shapes' = S.shapes
    /\ ops' = S.ops
    /\ calls' = S.calls

Occurrences(seq, h) == Cardinality({i \in 1..Len(seq) : seq[i] = h})

Range(seq) == {seq[i] : i \in 1..Len(seq)}

\* raw values a caller passes for an input of the given type
RawInputs(tp) ==
    IF tp = AtomType THEN {RawInt(n) : n \in 0..MaxVal}
    ELSE {RawList(<<RawInt(0), RawInt(1)>>)}

\* what a caller can pass to op: a raw value, or the ref it holds
Inputs(op) ==
    RawInputs(InputTp(op)) \cup
    {r \in {held} : r # NoRef /\ (r.kind = "ListRef") = (InputTp(op) # AtomType)}

\* the program's state after a call that returned r: the calls it returned
\* wait to be saved, its first output is held
Returned(op_name, fn, hid, existed, inp, r, ref, returned_calls) ==
    /\ SetStore(r.S)
    /\ last' = Last(op_name, fn, r.err, hid, existed, inp, r.ran,
                    \E h \in Range(r.ran) :
                        ~h.structural /\ (h \in invoked \/ Occurrences(r.ran, h) > 1))
    /\ pending' = IF r.err = "" THEN returned_calls ELSE <<>>
    /\ held' = IF r.err = "" THEN ref ELSE NoRef
    /\ invoked' = invoked \cup Range(r.ran)
    /\ UNCHANGED <<current_context, nesting, written, ui, lite>>

\* call_internal has returned r; w are the wrapped inputs in the state before
AfterCall(op, inp, w, r) ==
    Returned("call_internal", op.name,
             IF w.err = "" THEN get_call_history_id(op, w.outputs) ELSE "",
             w.err = "" /\ exists_call(w.S, get_call_history_id(op, w.outputs)),
             inp, r,
             IF r.err = "" THEN r.outputs[1].ref ELSE NoRef,
             IF r.err = "" THEN <<r.main_call>> \o r.calls ELSE <<>>)

\* a call of call_internal by the program
CallInternal(op, inp) ==
    /\ steps.calls < MaxCalls
    /\ steps' = [steps EXCEPT !.calls = @ + 1]
    /\ AfterCall(op, inp,
                 wrap_inputs(Store, <<Entry(InputName(op), inp)>>, <<InputTp(op)>>,
                             1, <<>>, <<>>, <<>>),
                 call_internal(Store, op, <<Entry(InputName(op), inp)>>, <<InputTp(op)>>))

\* save_call of one of the calls the last call_internal returned
SaveCall(i) ==
    LET r == save_call(Store, pending[i])
    IN  /\ SetStore(r.S)
        /\ last' = Did("save_call", r.err, pending[i].hid,
                        exists_call(Store, pending[i].hid), NoRef)
        /\ UNCHANGED <<current_context, nesting, pending, held, invoked, steps, written, ui, lite>>

RECURSIVE save_calls(_, _, _)
\* Storage.call, the save loop after save_call r of call i - 1
save_calls_next(cs, i, r) == IF r.err # "" THEN r ELSE save_calls(r.S, cs, i)

\* Storage.call with save_calls: save_call of each call in turn, from call i on
save_calls(S, cs, i) ==
    IF i > Len(cs) THEN Ok(S) ELSE save_calls_next(cs, i + 1, save_call(S, cs[i]))

\* the calls the last operation returned have been saved in turn, leaving r
AfterSaveCalls(r) ==
    /\ SetStore(r.S)
    /\ last' = Did("save_calls", r.err, pending[1].hid, exists_call(Store, pending[1].hid),
                    NoRef)
    /\ UNCHANGED <<current_context, nesting, pending, held, invoked, steps, written, ui, lite>>

\* save_call of all the calls the last operation returned, in their order
SaveCalls ==
    /\ pending # <<>>
    /\ AfterSaveCalls(save_calls(Store, pending, 1))

\* save_ref of the ref the program holds
SaveRef ==
    LET r == save_ref(Store, held)
    IN  /\ held # NoRef
        /\ SetStore(r.S)
        /\ last' = Did("save_ref", r.err, held.hid, cache_exists(shapes, held.hid), held)
        /\ UNCHANGED <<current_context, nesting, pending, held, invoked, steps, written, ui, lite>>

KnownHids == (DOMAIN shapes.cache) \cup (DOMAIN shapes.persistent)

\* load_ref of a hid the storage knows
LoadRef(hid, lazy) ==
    LET r == load_ref(Store, hid, lazy)
    IN  /\ SetStore(r.S)
        /\ last' = Did(IF lazy THEN "load_ref_lazy" ELSE "load_ref", r.err, hid,
                        TRUE, r.ref)
        /\ UNCHANGED <<current_context, nesting, pending, held, invoked, steps, written, ui, lite>>

Commit ==
    /\ SetStore(commit(Store))
    /\ last' = Did("commit", "", "", FALSE, NoRef)
    /\ UNCHANGED <<current_context, nesting, pending, held, invoked, steps, written, ui, lite>>

\* the process ends without a commit and a new one opens the same database
Crash ==
    /\ steps.crashes < MaxCrashes
    /\ steps' = [steps EXCEPT !.crashes = @ + 1]
    /\ atoms' = [EmptyTable EXCEPT !.persistent = atoms.persistent]
    /\ shapes' = [EmptyTable EXCEPT !.persistent = shapes.persistent]
    /\ ops' = [EmptyTable EXCEPT !.persistent = ops.persistent]
    /\ calls' = [EmptyTable EXCEPT !.persistent = calls.persistent]
    /\ current_context' = "None"
    /\ nesting' = 0
    /\ last' = Did("crash", "", "", FALSE, NoRef)
    /\ pending' = <<>>
    /\ held' = NoRef
    /\ UNCHANGED <<invoked, written, ui, lite>>

KnownCalls == (DOMAIN calls.cache) \cup (DOMAIN calls.persistent)

DropCalls(hid, delete_dependents) ==
    /\ steps.drops < MaxDrops
    /\ steps' = [steps EXCEPT !.drops = @ + 1]
    /\ SetStore(drop_calls(Store, {hid}, delete_dependents))
    /\ last' = Last("drop_calls", IF delete_dependents THEN "delete_dependents" ELSE "",
                    "", hid, TRUE, NoRef, <<>>, FALSE)
    /\ UNCHANGED <<current_context, nesting, pending, held, invoked, written, ui, lite>>

CleanupRefs ==
    /\ IF in_context
       THEN /\ last' = Did("cleanup_refs", "NotImplementedError", "", FALSE, NoRef)
            /\ UNCHANGED <<atoms, shapes, ops, calls>>
       ELSE /\ last' = Did("cleanup_refs", "", "", get_orphans(Store) # {}, NoRef)
            /\ SetStore(cleanup_refs(Store))
    /\ UNCHANGED <<current_context, nesting, pending, held, invoked, steps, written, ui, lite>>

\* a provenance or reachability query: it raises while a context is open,
\* else it leaves the storage of r; found tells whether its result is non-empty
Query(name, hid, r, found) ==
    /\ IF in_context
       THEN /\ last' = Did(name, "NotImplementedError", hid, FALSE, NoRef)
            /\ UNCHANGED <<atoms, shapes, ops, calls>>
       ELSE /\ last' = Did(name, r.err, hid, found, NoRef)
            /\ SetStore(r.S)
    /\ UNCHANGED <<current_context, nesting, pending, held, invoked, steps, written, ui, lite>>

GetOrphans == Query("get_orphans", "", Ok(Store), get_orphans(Store) # {})

GetUnreferencedCids ==
    Query("get_unreferenced_cids", "", Ok(Store), get_unreferenced_cids(Store) # {})

GetCreators(hid) ==
    Query("get_creators", hid, get_creators(Store, {hid}),
          get_creator_hids(Store, {hid}) # {})

GetConsumers(hid) ==
    Query("get_consumers", hid, get_consumers(Store, {hid}),
          get_consumer_hids(Store, {hid}) # {})

\* Storage.__enter__
Enter ==
    /\ nesting < MaxNesting
    /\ current_context' = "Context"
    /\ nesting' = nesting + 1
    /\ last' = Did("enter", "", "", FALSE, NoRef)
    /\ UNCHANGED <<atoms, shapes, ops, calls, pending, held, invoked, steps, written, ui, lite>>

\* an __exit__ that clears the pointer and does not commit
ExitWithoutCommit ==
    /\ nesting > 0
    /\ current_context' = "None"
    /\ nesting' = nesting - 1
    /\ last' = Did("exit", "", "", last.err # "", NoRef)
    /\ UNCHANGED <<atoms, shapes, ops, calls, pending, held, invoked, steps, written, ui, lite>>

\* Storage.__exit__; existed records whether the block is left through an
\* exception, that is, whether the last operation in it raised
Exit ==
    /\ nesting > 0
    /\ current_context' = "None"
    /\ nesting' = nesting - 1
    /\ SetStore(commit(Store))
    /\ last' = Did("exit", "", "", last.err # "", NoRef)
    /\ UNCHANGED <<pending, held, invoked, steps, written, ui, lite>>

\* construct has returned r
AfterConstruct(val, r) ==
    Returned("construct", "", r.ref.hid, FALSE, val, r, r.ref, r.calls)

\* Storage.construct called by the program on a raw value
Construct(tp, val) ==
    /\ steps.calls < MaxCalls
    /\ steps' = [steps EXCEPT !.calls = @ + 1]
    /\ AfterConstruct(val, construct(Store, tp, val))

\* the declared type of the value of a ref the program holds
RECURSIVE TypeOf(_)
TypeOf(ref) ==
    IF ref.kind = "ListRef" /\ Len(ref.elts) > 0 THEN ListType(TypeOf(ref.elts[1]))
    ELSE IF ref.kind = "ListRef" THEN ListType(AtomType)
    ELSE AtomType

\* destruct has returned r
AfterDestruct(ref, r) ==
    Returned("destruct", "", ref.hid, FALSE, ref, r, r.ref, r.calls)

\* Storage.destruct called by the program on the ref it holds
Destruct ==
    /\ held # NoRef
    /\ AfterDestruct(held, destruct(Store, held, TypeOf(held)))
    /\ UNCHANGED steps

(***************************************************************************)
(* The cached table layer used directly: set, get, exists, drop and commit *)
(* on the atoms table.  written is the logical table: the value most       *)
(* recently set under each key.                                            *)
(***************************************************************************)
TableKeys == {"k1", "k2"}

TableValues == {"v1", "v2"}

\* where a key is found before a step
FoundIn(T, key) ==
    IF key \in T.dirty THEN "dirty"
    ELSE IF key \in DOMAIN T.cache THEN "cache"
    ELSE IF key \in DOMAIN T.persistent THEN "persistent"
    ELSE ""

\* a step on the table: last records where the key was found and whether
\* exists(key) held before it
TableStep(op, err, key, T, logical) ==
    /\ atoms' = T
    /\ written' = logical
    /\ last' = Last(op, FoundIn(atoms, key), err, key, cache_exists(atoms, key), NoRef,
                    <<>>, FALSE)
    /\ UNCHANGED <<shapes, ops, calls, current_context, nesting, pending, held, invoked,
                   steps, ui, lite>>

\* atoms[key] = value
TableSet(key, value) ==
    TableStep("set", "", key, cache_set(atoms, key, value), MapSet(written, key, value))

\* atoms[key]
TableGet(key) ==
    TableStep("get", cache_get(atoms, key, "").err, key, cache_get(atoms, key, "").T, written)

\* atoms.exists(key)
TableExists(key) == TableStep("exists", "", key, atoms, written)

\* atoms.drop(key)
TableDrop(key) == TableStep("drop", "", key, cache_drop(atoms, key), MapDrop(written, key))

\* atoms.commit(conn)
TableCommit == TableStep("commit", commit_error(atoms), "", cache_commit(atoms), written)

\* a new process opens the same database: the cache is empty and the logical
\* table is the durable one
TableRestart ==
    TableStep("crash", "", "", [EmptyTable EXCEPT !.persistent = atoms.persistent],
              atoms.persistent)

(***************************************************************************)
(* The relational version: calls and their objects are cached, preloaded   *)
(* and committed, and a memoized function is defined, synchronized and     *)
(* renamed.                                                                *)
(***************************************************************************)
\* the calls a program of the model makes: the output of the first is the
\* input of the second
UiCalls ==
    {UiCall("c1", "u1", <<VRef("o1", "")>>, <<VRef("o2", "c1")>>),
     UiCall("c2", "u2", <<VRef("o2", "c1")>>, <<VRef("o3", "c2")>>)}

FuncNames == {"f", "g", "__list__"}

ArgNames == {"x", "y"}

\* an operation of the relational version has left r; fn is its variant
UiStep(op, fn, hid, r) ==
    /\ ui.open
    /\ ui' = r.u
    /\ last' = Last(op, fn, r.err, hid, ~is_clean(ui), NoRef, <<>>, FALSE)
    /\ UNCHANGED <<atoms, shapes, ops, calls, current_context, nesting, pending, held,
                   invoked, steps, written, lite>>

\* Storage(evict_on_commit=...)
UiNew(evict_on_commit) ==
    /\ ~ui.open
    /\ ui' = ui_init(evict_on_commit)
    /\ last' = Did("ui_new", "", "", FALSE, NoRef)
    /\ UNCHANGED <<atoms, shapes, ops, calls, current_context, nesting, pending, held,
                   invoked, steps, written, lite>>

UiCacheCallAndObjs(call) ==
    UiStep("cache_call_and_objs", "", call.causal_uid, UiOk(cache_call_and_objs(ui, call)))

UiPreloadObjs(uids) == UiStep("preload_objs", "", "", preload_objs(ui, uids))

\* commit() and commit(calls=cs)
UiCommit(calls_is_None, cs) ==
    UiStep("ui_commit", IF calls_is_None THEN "all" ELSE "calls", "",
           ui_commit(ui, calls_is_None, cs))

\* a function object that was synchronized with another Storage object
SynchronizedElsewhere(f) ==
    [f EXCEPT !.sig.internal_name = "fn_other", !.is_synchronized = TRUE,
              !.storage_id = "other"]

\* the program defines a function: a new function object, or elsewhere one
\* that it synchronized with another Storage object
UiDefine(name, elsewhere) ==
    LET f == FuncInterface(Signature("", name, {"x"}))
    IN  UiStep("define", "", name,
               UiOk([ui EXCEPT !.func = IF elsewhere THEN SynchronizedElsewhere(f) ELSE f]))

UiSynchronize ==
    /\ ui.func # NoFunc
    /\ UiStep("synchronize", "", ui.func.sig.ui_name, synchronize(ui))

UiRenameFunc(new_name) ==
    /\ ui.func # NoFunc
    /\ UiStep("rename_func", "", new_name, rename_func(ui, new_name))

UiRenameArg(name, new_name) ==
    /\ ui.func # NoFunc
    /\ UiStep("rename_arg", "", new_name, rename_arg(ui, name, new_name))

(***************************************************************************)
(* mandala_lite: a program calls the context with updates and enters and   *)
(* leaves `with` blocks on it.                                             *)
(***************************************************************************)
\* the keyword arguments a program passes to the context
ContextUpdates ==
    {EmptyMap, MapSet(EmptyMap, "mode", "query"), MapSet(EmptyMap, "mode", "run"),
     MapSet(EmptyMap, "lazy", "True"), MapSet(EmptyMap, "verbose", "True")}

\* a step of the program on the context that leaves it as c
ContextStep(op, err, c, body_raised) ==
    /\ lite' = c
    /\ last' = Did(op, err, "", body_raised, NoRef)
    /\ UNCHANGED <<atoms, shapes, ops, calls, current_context, nesting, pending, held,
                   invoked, steps, written, ui>>

\* context(storage, **updates)
ContextCall(storage, updates) ==
    ContextStep("context_call", "", Context_call(lite, storage, updates), FALSE)

\* the `with` statement calls __enter__; the block is entered when it returns
ContextEnter(sync_fails) ==
    LET r == Context_enter(lite, sync_fails)
    IN  /\ Len(lite.updates_stack) < MaxLevels
        /\ ContextStep("context_enter", r.err,
                       IF r.err = "" THEN [r.c EXCEPT !.entered = Append(@, lite.attrs)]
                       ELSE r.c,
                       FALSE)

\* the block is left, normally or through an exception, and the `with`
\* statement calls __exit__
ContextExit(commit_fails, exc_type) ==
    LET r == Context_exit(lite, commit_fails, exc_type)
    IN  /\ lite.entered # <<>>
        /\ ContextStep("context_exit", r.err,
                       [r.c EXCEPT !.entered = SubSeq(@, 1, Len(@) - 1)],
                       exc_type # "")

\* raw values with their declared types
Typed(tp, val) == [tp |-> tp, val |-> val]

RawValues ==
    {Typed(AtomType, RawInt(n)) : n \in 0..MaxVal} \cup
    {Typed(ListType(AtomType), RawList(<<RawInt(0), RawInt(1)>>)),
     Typed(ListType(ListType(AtomType)),
           RawList(<<RawList(<<RawInt(1)>>), RawList(<<RawInt(0), RawInt(1)>>)>>))}

(***************************************************************************)
(* Memoization with atom-valued ops, explicit saves, commit, restart and   *)
(* garbage collection, outside of any context.                             *)
(***************************************************************************)
MemoOps == {inc_op, total_op, mutate_op}

Next ==
    \/ \E op \in MemoOps : \E inp \in Inputs(op) : CallInternal(op, inp)
    \/ \E i \in 1..Len(pending) : SaveCall(i)
    \/ Commit
    \/ Crash
    \/ \E hid \in KnownCalls : DropCalls(hid, FALSE)
    \/ CleanupRefs

Spec == Init /\ [][Next]_vars

(***************************************************************************)
(* Memoization with all the ops of the model, list-valued outputs          *)
(* included, and no garbage collection.                                    *)
(***************************************************************************)
NextList ==
    \/ \E op \in UserOps : \E inp \in Inputs(op) : CallInternal(op, inp)
    \/ \E i \in 1..Len(pending) : SaveCall(i)
    \/ Commit
    \/ Crash

SpecList == Init /\ [][NextList]_vars

(***************************************************************************)
(* Persistence of refs: refs built with construct or returned by split     *)
(* are saved, loaded back, committed and lost in a restart.                *)
(***************************************************************************)
NextRefs ==
    \/ \E tv \in RawValues : Construct(tv.tp, tv.val)
    \/ \E inp \in Inputs(split_op) : CallInternal(split_op, inp)
    \/ SaveRef
    \/ \E hid \in KnownHids : \E lazy \in BOOLEAN : LoadRef(hid, lazy)
    \/ Commit
    \/ Crash

SpecRefs == Init /\ [][NextRefs]_vars

(***************************************************************************)
(* Buffered writes: calls and refs are saved with save_call and save_ref,  *)
(* committed, and lost in a restart.                                       *)
(***************************************************************************)
SaveOps == {inc_op, split_op}

NextSave ==
    \/ \E op \in SaveOps : \E inp \in Inputs(op) : CallInternal(op, inp)
    \/ \E i \in 1..Len(pending) : SaveCall(i)
    \/ SaveRef
    \/ Commit
    \/ Crash

SpecSave == Init /\ [][NextSave]_vars

(***************************************************************************)
(* Contexts: calls are made and saved inside and outside of `with storage:` *)
(* blocks, and the provenance and reachability queries are asked in both.  *)
(***************************************************************************)
NextCtx ==
    \/ \E inp \in Inputs(inc_op) : CallInternal(inc_op, inp)
    \/ \E i \in 1..Len(pending) : SaveCall(i)
    \/ Enter
    \/ Exit
    \/ Crash
    \/ GetOrphans
    \/ GetUnreferencedCids
    \/ CleanupRefs
    \/ \E hid \in KnownHids : GetCreators(hid)
    \/ \E hid \in KnownHids : GetConsumers(hid)

SpecCtx == Init /\ [][NextCtx]_vars

(***************************************************************************)
(* Failing saves: the output of box is a ref that save_ref rejects, so     *)
(* save_call of its call raises after it has saved the op and the input.   *)
(***************************************************************************)
FailOps == {inc_op, box_op}

NextFail ==
    \/ \E op \in FailOps : \E inp \in RawInputs(InputTp(op)) : CallInternal(op, inp)
    \/ \E i \in 1..Len(pending) : SaveCall(i)
    \/ Commit
    \/ Crash

SpecFail == Init /\ [][NextFail]_vars

(***************************************************************************)
(* Converging computations: calls of inc and of the constant op zero on    *)
(* different inputs, saved, committed and lost in a restart.               *)
(***************************************************************************)
SameOps == {inc_op, zero_op}

NextSame ==
    \/ \E op \in SameOps : \E inp \in Inputs(op) : CallInternal(op, inp)
    \/ \E i \in 1..Len(pending) : SaveCall(i)
    \/ Commit
    \/ Crash

SpecSame == Init /\ [][NextSame]_vars

(***************************************************************************)
(* Chains of calls: the output of one call of inc is the input of the      *)
(* next, the calls are saved and committed, and calls are dropped with     *)
(* their dependents.                                                       *)
(***************************************************************************)
NextDeps ==
    \/ \E inp \in Inputs(inc_op) : CallInternal(inc_op, inp)
    \/ \E i \in 1..Len(pending) : SaveCall(i)
    \/ Commit
    \/ \E hid \in KnownCalls : DropCalls(hid, TRUE)

SpecDeps == Init /\ [][NextDeps]_vars

(***************************************************************************)
(* Versions: calls of two versions of the op inc are made, saved,          *)
(* committed and lost in a restart.                                        *)
(***************************************************************************)
VersionedOps == {inc_op, inc_v1_op}

NextVersions ==
    \/ \E op \in VersionedOps : \E inp \in Inputs(op) : CallInternal(op, inp)
    \/ \E i \in 1..Len(pending) : SaveCall(i)
    \/ Commit
    \/ Crash

SpecVersions == Init /\ [][NextVersions]_vars

(***************************************************************************)
(* Structural calls: raw values are constructed, the refs destructed and   *)
(* the structural calls saved.                                             *)
(***************************************************************************)
NextStruct ==
    \/ \E tv \in RawValues : Construct(tv.tp, tv.val)
    \/ Destruct
    \/ SaveCalls

SpecStruct == Init /\ [][NextStruct]_vars

(***************************************************************************)
(* The relational version under caching, preloading and commit.            *)
(***************************************************************************)
NextUi ==
    \/ \E evict_on_commit \in BOOLEAN : UiNew(evict_on_commit)
    \/ \E call \in UiCalls : UiCacheCallAndObjs(call)
    \/ \E uids \in SUBSET {"o1", "o2"} : UiPreloadObjs(uids)
    \/ UiCommit(TRUE, {})
    \/ \E cs \in SUBSET UiCalls : UiCommit(FALSE, cs)

SpecUi == Init /\ [][NextUi]_vars

(***************************************************************************)
(* The relational version under the definition, synchronization and        *)
(* renaming of a function, with calls cached and committed in between.     *)
(***************************************************************************)
NextRename ==
    \/ \E evict_on_commit \in BOOLEAN : UiNew(evict_on_commit)
    \/ \E call \in {c \in UiCalls : c.causal_uid = "c1"} : UiCacheCallAndObjs(call)
    \/ UiCommit(TRUE, {})
    \/ \E name \in {"f", "g"}, elsewhere \in BOOLEAN : UiDefine(name, elsewhere)
    \/ UiSynchronize
    \/ \E new_name \in FuncNames : UiRenameFunc(new_name)
    \/ \E name, new_name \in ArgNames : UiRenameArg(name, new_name)

SpecRename == Init /\ [][NextRename]_vars

(***************************************************************************)
(* mandala_lite: one Context object under calls with updates and nested    *)
(* `with` blocks, with failing synchronization and failing commits.        *)
(***************************************************************************)
NextLite ==
    \/ \E storage \in {"None", "s1", "s2"} : \E updates \in ContextUpdates :
           ContextCall(storage, updates)
    \/ \E sync_fails \in BOOLEAN : ContextEnter(sync_fails)
    \/ \E commit_fails \in BOOLEAN : \E exc_type \in {"", "KeyError"} :
           ContextExit(commit_fails, exc_type)

SpecLite == Init /\ [][NextLite]_vars

(***************************************************************************)
(* One cached table under set, get, exists, drop, commit and restart.      *)
(***************************************************************************)
NextTable ==
    \/ \E key \in TableKeys : \E value \in TableValues : TableSet(key, value)
    \/ \E key \in TableKeys : TableGet(key)
    \/ \E key \in TableKeys : TableExists(key)
    \/ \E key \in TableKeys : TableDrop(key)
    \/ TableCommit
    \/ TableRestart

SpecTable == Init /\ [][NextTable]_vars

(***************************************************************************)
(* Properties.                                                             *)
(***************************************************************************)
\* the row of a call in the calls table, cached or durable
StoredRow(hid) ==
    IF hid \in DOMAIN calls.cache THEN calls.cache[hid]
    ELSE IF hid \in DOMAIN calls.persistent THEN calls.persistent[hid]
    ELSE NoData

\* C1: when exists_call holds for the computed history id, call_internal
\* returns the outputs of the stored call and does not invoke the function
\* of the op.
C1_MemoHitReturnsStoredOutputs ==
    (last.op = "call_internal" /\ last.existed) =>
        /\ last.err = ""
        /\ \A h \in Range(last.ran) : h.hid # last.hid
        /\ Len(pending) > 0
        /\ call_data(pending[1]).outputs = StoredRow(last.hid).outputs

\* C2 as stated: over any sequence of call_internal invocations, with or
\* without a save_call in between, the function of a user op is invoked at
\* most once per call hid.
C2_InvokedAtMostOncePerHid == last.op = "call_internal" => ~last.reran

\* C2, amended: call_internal invokes a function only for a call hid for
\* which no call is stored (exists_call is false before the invocation), so
\* the function is not invoked again while the saved call exists.
C2_InvokedOnlyWhenNotStored ==
    [][last'.op = "call_internal" =>
          \A h \in Range(last'.ran) : ~exists_call(Store, h.hid)]_vars

\* C2, the case: a call_internal answered from the saved call of a hid whose
\* function had been invoked before.
C2_SecondCallAnswered ==
    /\ last.op = "call_internal"
    /\ last.existed
    /\ last.err = ""
    /\ last.ran = <<>>
    /\ \E h \in invoked : h.hid = last.hid

\* the ids under each output name of a call
OutputIds(call) == call_data(call).outputs

\* C3: two successive invocations of call_internal that compute the same
\* call return, under each output name, outputs with the same hid and the
\* same cid, whether the second one executes the function again or is
\* answered from a saved call.
C3_SameOutputIds ==
    [][(/\ last'.op = "call_internal"
        /\ last'.err = ""
        /\ pending # <<>>
        /\ pending[1].hid = last'.hid)
       => OutputIds(pending'[1]) = OutputIds(pending[1])]_vars

\* C3, the case: the same call was made a second time and answered from the
\* saved call, with a list as its output.
C3_CalledTwice ==
    /\ last.op = "call_internal"
    /\ last.err = ""
    /\ \E h \in invoked : h.hid = last.hid
    /\ last.existed
    /\ held.kind = "ListRef"

\* the function of the op was invoked in the last call_internal
FunctionRan == \E h \in Range(last.ran) : h.hid = last.hid

\* a table after a step holds what it held before, and its cache has at
\* most gained clean copies of durable rows
OnlyRead(T, T2) ==
    /\ T2.persistent = T.persistent
    /\ T2.dirty = T.dirty
    /\ DOMAIN T.cache \subseteq DOMAIN T2.cache
    /\ \A k \in DOMAIN T2.cache :
          IF k \in DOMAIN T.cache THEN T2.cache[k] = T.cache[k]
          ELSE k \in DOMAIN T.persistent /\ T2.cache[k] = T.persistent[k]

\* C4 as stated: when the function of a user op mutates an input in place,
\* call_internal fails with the side-effect error and atoms, shapes, ops and
\* calls are unchanged, in cache and durable.
C4_SideEffectLeavesTablesUnchanged ==
    [][(last'.op = "call_internal" /\ last'.fn = "mutate" /\ FunctionRan')
       => /\ last'.err = "ValueError"
          /\ UNCHANGED <<atoms, shapes, ops, calls>>]_vars

\* C4, amended: when the function of a user op mutates an input in place,
\* call_internal fails with the side-effect error and writes no row: no
\* entry is set or marked dirty and the durable tables are unchanged; the
\* caches may have gained clean copies of durable rows read on the way.
C4_SideEffectWritesNoRow ==
    [][(last'.op = "call_internal" /\ last'.fn = "mutate" /\ FunctionRan')
       => /\ last'.err = "ValueError"
          /\ pending' = <<>>
          /\ OnlyRead(atoms, atoms')
          /\ OnlyRead(shapes, shapes')
          /\ OnlyRead(ops, ops')
          /\ OnlyRead(calls, calls')]_vars

\* C4, the case: the mutating function was invoked and call_internal raised
\* the side-effect error.
C4_SideEffectRaised ==
    /\ last.op = "call_internal"
    /\ last.fn = "mutate"
    /\ FunctionRan
    /\ last.err = "ValueError"

\* C5: call_internal persists nothing, whether it hits the memo, executes
\* the function or raises: it sets no entry and marks none dirty in atoms,
\* shapes, ops and calls, the durable tables are unchanged, and a call
\* becomes visible to exists_call only in a save_call.
C5_CallInternalPersistsNothing ==
    [][/\ last'.op = "call_internal" =>
            /\ OnlyRead(atoms, atoms')
            /\ OnlyRead(shapes, shapes')
            /\ OnlyRead(ops, ops')
            /\ OnlyRead(calls, calls')
            /\ exists_call(Store, last'.hid) = (last'.hid \in KnownCalls')
       /\ \A h \in KnownCalls' \ KnownCalls : last'.op = "save_call"]_vars

\* C5, the case: call_internal executed the function and returned a call
\* that exists_call does not see.
C5_ReturnedCallNotStored ==
    /\ last.op = "call_internal"
    /\ last.err = ""
    /\ FunctionRan
    /\ pending # <<>>
    /\ ~exists_call(Store, pending[1].hid)

\* the storage after a step
StoreAfter == [atoms |-> atoms', shapes |-> shapes', ops |-> ops', calls |-> calls']

\* C6: save_ref is idempotent: a second save_ref of the same ref leaves the
\* atoms and shapes tables (cache, dirty markers and, after commit, durable
\* rows) as the first left them, and save_ref of a ref whose hid is already
\* in shapes changes nothing.
C6_SaveRefIdempotent ==
    [][last'.op = "save_ref" =>
          /\ save_ref(StoreAfter, held).S = StoreAfter
          /\ commit(save_ref(StoreAfter, held).S) = commit(StoreAfter)
          /\ last'.existed => UNCHANGED <<atoms, shapes, ops, calls>>]_vars

\* C6, the case: save_ref of a list ref whose hid is already in shapes, after
\* the first save was committed.
C6_SavedAgain ==
    /\ last.op = "save_ref"
    /\ last.existed
    /\ held.kind = "ListRef"
    /\ held.hid \in DOMAIN shapes.persistent

\* C7: save_call of a call whose hid already exists in the calls table
\* changes none of ops, atoms, shapes and calls, so saving a call twice has
\* the effect of saving it once.
C7_SaveCallNoOpWhenExists ==
    [][last'.op = "save_call" =>
          /\ last'.existed => UNCHANGED <<atoms, shapes, ops, calls>>
          /\ \A i \in 1..Len(pending) :
                pending[i].hid = last'.hid =>
                    save_call(StoreAfter, pending[i]).S = StoreAfter]_vars

\* C7, the case: save_call of a call that is already durable.
C7_SavedAgain ==
    /\ last.op = "save_call"
    /\ last.existed
    /\ last.hid \in DOMAIN calls.persistent

\* commit has written every dirty entry of the table and cleared the markers
Flushed(T, T2) ==
    /\ T2.dirty = {}
    /\ \A k \in T.dirty :
          /\ k \in DOMAIN T.cache
          /\ k \in DOMAIN T2.persistent
          /\ T2.persistent[k] = T.cache[k]

\* C8: after commit every entry that was dirty in atoms, shapes, ops or calls
\* is in the persistent table with the value last set, and no table has a
\* dirty entry.
C8_CommitFlushesAll ==
    [][last'.op = "commit" =>
          /\ Flushed(atoms, atoms')
          /\ Flushed(shapes, shapes')
          /\ Flushed(ops, ops')
          /\ Flushed(calls, calls')]_vars

\* C8, the case: a commit has made rows of all four tables durable.
C8_Committed ==
    /\ last.op = "commit"
    /\ DOMAIN atoms.persistent # {}
    /\ DOMAIN shapes.persistent # {}
    /\ DOMAIN ops.persistent # {}
    /\ DOMAIN calls.persistent # {}

\* the durable tables
Durable == <<atoms.persistent, shapes.persistent, ops.persistent, calls.persistent>>

\* C9: save_ref and save_call only buffer their writes, and a restart
\* without a commit loses the buffer only: none of them changes a durable
\* table.
C9_SavesOnlyBuffer ==
    [][last'.op \in {"save_ref", "save_call", "crash"} => Durable' = Durable]_vars

\* C9, the case: a call was saved, and not committed, next to durable rows
\* of an earlier commit.
C9_BufferedNextToDurable ==
    /\ last.op = "save_call"
    /\ ~last.existed
    /\ last.hid \in calls.dirty
    /\ last.hid \notin DOMAIN calls.persistent
    /\ DOMAIN calls.persistent # {}

\* the value a ref carries: payloads and residency, recursively
RECURSIVE Content(_)
Content(ref) ==
    [in_memory |-> ref.in_memory, obj |-> ref.obj,
     elts |-> [i \in 1..Len(ref.elts) |-> Content(ref.elts[i])]]

\* C10: load_ref(r.hid, lazy=False) of a saved ref r returns a ref with the
\* hid and the cid of r that carries a value equal by content to the value
\* of r; for a ListRef it wraps the recursively loaded, attached children.
C10_RoundTrip ==
    (last.op = "load_ref" /\ last.err = "" /\ held # NoRef /\ last.hid = held.hid) =>
        /\ last.ref.hid = held.hid
        /\ last.ref.cid = held.cid
        /\ Content(last.ref) = Content(held)

\* the hids and cids of a ref and of its elements, recursively
RECURSIVE Ids(_)
Ids(ref) ==
    [kind |-> ref.kind, hid |-> ref.hid, cid |-> ref.cid,
     elts |-> [i \in 1..Len(ref.elts) |-> Ids(ref.elts[i])]]

\* no payload is resident in the ref: its atoms are detached
RECURSIVE NoPayload(_)
NoPayload(ref) ==
    /\ ref.obj = NoObj
    /\ ref.kind = "AtomRef" => ~ref.in_memory
    /\ \A i \in 1..Len(ref.elts) : NoPayload(ref.elts[i])

\* C11: load_ref(hid, lazy=True) of a saved ref returns a shape with the hid
\* and the cid of the saved ref (and of its elements) and no resident payload,
\* and does not read the atoms table.
C11_LazyRoundTrip ==
    [][(last'.op = "load_ref_lazy" /\ last'.err = "") =>
          /\ last'.ref.hid = last'.hid
          /\ NoPayload(last'.ref)
          /\ atoms' = atoms
          /\ (held # NoRef /\ held.hid = last'.hid) => Ids(last'.ref) = Ids(held)]_vars

\* C11, the case: a saved and committed list ref is loaded lazily in a new
\* process, whose atoms cache is empty.
C11_LazyLoaded ==
    /\ last.op = "load_ref_lazy"
    /\ last.err = ""
    /\ held.kind = "ListRef"
    /\ held.hid = last.hid
    /\ DOMAIN atoms.persistent # {}
    /\ DOMAIN atoms.cache = {}

\* the hids of a ref and of its elements, recursively
RECURSIVE RefHids(_)
RefHids(ref) == {ref.hid} \cup UNION {RefHids(ref.elts[i]) : i \in 1..Len(ref.elts)}

\* the hids reachable from the durable calls: their input and output hids
\* and the element hids of the list refs among them
ReachableHids ==
    UNION {IF r.hid \in DOMAIN shapes.persistent THEN RefHids(shapes.persistent[r.hid])
           ELSE {r.hid} : r \in get_df(Store)}

\* C12: after the saved calls have been committed, get_orphans() contains no
\* hid reachable from them: no input or output hid of a saved call and no
\* element hid of a saved list ref.
C12_NoReachableOrphan ==
    (last.op = "commit" /\ ~in_context) => get_orphans(Store) \cap ReachableHids = {}

\* the stored call with this hid has the ref hid h as an input or output
References(call_hid, h) == \E r \in RowIds(StoredRow(call_hid)) : r.hid = h

\* C13: after drop_calls has removed every call that has the hid h as an
\* input or output, h, whose shape is in the durable shapes table, is in
\* get_orphans().
C13_DroppedRefsAreOrphans ==
    [][last'.op = "drop_calls" =>
          \A h \in DOMAIN shapes'.persistent :
              (/\ References(last'.hid, h)
               /\ \A c \in KnownCalls \ {last'.hid} : ~References(c, h))
              => h \in get_orphans(StoreAfter)]_vars

\* C13, the case: the only stored call was dropped and the durable shapes of
\* its refs are orphans.
C13_AllCallsDropped ==
    /\ last.op = "drop_calls"
    /\ KnownCalls = {}
    /\ DOMAIN shapes.persistent # {}
    /\ get_orphans(Store) = DOMAIN shapes.persistent

\* the keys of a cached table, cached or durable
Keys(T) == (DOMAIN T.cache) \cup (DOMAIN T.persistent)

\* the row of a key of a cached table, as get returns it
Row(T, key) == IF key \in DOMAIN T.cache THEN T.cache[key] ELSE T.persistent[key]

\* C14: garbage collection never removes an atom that is still referenced:
\* a cid that cleanup_refs removes from atoms is the cid of no surviving
\* shape and of no ref of the durable calls, so an atom shared by two hids
\* stays when the shape of only one of them is dropped.
C14_NoReferencedAtomRemoved ==
    [][last'.op = "cleanup_refs" =>
          \A cid \in Keys(atoms) \ Keys(atoms') :
              /\ \A h \in Keys(shapes') : Row(shapes', h).cid # cid
              /\ \A r \in get_df(StoreAfter) : r.cid # cid]_vars

\* the durable atoms whose only references are orphaned shapes
OrphanedCids ==
    {cid \in DOMAIN atoms.persistent :
        /\ \A r \in get_df(Store) : r.cid # cid
        /\ \E h \in DOMAIN shapes.persistent : shapes.persistent[h].cid = cid
        /\ \A h \in DOMAIN shapes.persistent :
              shapes.persistent[h].cid = cid => h \in get_orphans(Store)}

\* C15: cleanup_refs drops the orphaned hids from shapes before it selects
\* the unreferenced cids: an atom whose only references were orphaned shapes
\* is removed by the same cleanup_refs, and right after it get_orphans() and
\* get_unreferenced_cids() are empty.
C15_ShapesBeforeContent ==
    [][(last'.op = "cleanup_refs" /\ last'.err = "") =>
          /\ get_orphans(StoreAfter) = {}
          /\ get_unreferenced_cids(StoreAfter) = {}
          /\ DOMAIN shapes'.persistent = DOMAIN shapes.persistent \ get_orphans(Store)
          /\ OrphanedCids \cap Keys(atoms') = {}]_vars

\* C15, the case: a cleanup_refs that found orphaned shapes has emptied the
\* durable shapes and atoms tables.
C15_SweptBoth ==
    /\ last.op = "cleanup_refs"
    /\ last.err = ""
    /\ last.existed
    /\ DOMAIN ops.persistent # {}
    /\ DOMAIN shapes.persistent = {}
    /\ DOMAIN atoms.persistent = {}

Queries == {"get_orphans", "get_unreferenced_cids", "cleanup_refs", "get_creators",
            "get_consumers"}

\* C16: while a context is open, get_orphans, get_unreferenced_cids,
\* cleanup_refs, get_creators and get_consumers fail with an error and change
\* no table, cache or durable; they succeed only when no context is open.
C16_QueriesRejectedInContext ==
    [][last'.op \in Queries =>
          /\ current_context # "None" =>
                /\ last'.err = "NotImplementedError"
                /\ UNCHANGED <<atoms, shapes, ops, calls>>
          /\ last'.err = "" => current_context = "None"]_vars

\* C16, the case: a query was rejected in an open context in which a call
\* had been saved.
C16_RejectedInContext ==
    /\ last.op \in Queries
    /\ last.err = "NotImplementedError"
    /\ current_context # "None"
    /\ calls.dirty # {}
    /\ DOMAIN shapes.persistent # {}

\* the durable tables as a commit would leave them
DurableAfterCommit ==
    <<cache_commit(atoms).persistent, cache_commit(shapes).persistent,
      cache_commit(ops).persistent, cache_commit(calls).persistent>>

\* C17: a call that fails leaves no durable trace: when call_internal or
\* save_call raises, none of the op, ref or call rows of that call becomes
\* durable at a later commit, i.e. the call has added nothing to what a
\* commit writes.
C17_FailedCallLeavesNoTrace ==
    [][(last'.op \in {"call_internal", "save_call"} /\ last'.err # "")
       => DurableAfterCommit' = DurableAfterCommit]_vars

\* One save of a replay: 0 is save_ref of the held ref, i > 0 is save_call
\* of the i-th returned call.
SaveItem(S, x) == IF x = 0 THEN save_ref(S, held) ELSE save_call(S, pending[x])

\* the storage after the saves of seq, from position k on
RECURSIVE Replay(_, _, _)
Replay(S, seq, k) ==
    IF k > Len(seq) THEN S ELSE Replay(SaveItem(S, seq[k]).S, seq, k + 1)

\* the durable tables after the saves of seq and a commit
Replayed(seq) ==
    LET S == commit(Replay(Store, seq, 1))
    IN  <<S.atoms.persistent, S.shapes.persistent, S.ops.persistent, S.calls.persistent>>

\* the returned call y produces a value that the save x is about
DependsOn(x, y) ==
    /\ x # y
    /\ \E j \in 1..Len(pending[y].outputs) :
          IF x = 0 THEN pending[y].outputs[j].ref.hid = held.hid
          ELSE \E i \in 1..Len(pending[x].inputs) :
                   pending[x].inputs[i].ref.hid = pending[y].outputs[j].ref.hid

\* every save of the held ref and of the returned calls, each at least once,
\* with at most one of them repeated
ReplaySeqs ==
    UNION {{seq \in [1..n -> 0..Len(pending)] : \A x \in 0..Len(pending) : x \in Range(seq)} :
           n \in {Len(pending) + 1, Len(pending) + 2}}

\* a save comes after the saves of the calls that produce its values
RespectsDependencies(seq) ==
    \A k \in 1..Len(seq) : \A y \in 1..Len(pending) :
        DependsOn(seq[k], y) => \E m \in 1..(k - 1) : seq[m] = y

\* the saves in the order of Storage.call: the main call, the other calls,
\* then the output
CallOrder == [k \in 1..(Len(pending) + 1) |-> IF k > Len(pending) THEN 0 ELSE k]

C19_OneLogicalTable ==
    [][/\ last'.op = "get" =>
            /\ last'.hid \in DOMAIN written =>
                  /\ last'.err = ""
                  /\ cache_get(atoms, last'.hid, "").val = written[last'.hid]
                  /\ atoms'.cache = MapSet(atoms.cache, last'.hid, written[last'.hid])
            /\ last'.hid \notin DOMAIN written =>
                  /\ last'.err = "KeyError"
                  /\ atoms'.cache = atoms.cache
            /\ last'.hid \in DOMAIN atoms.cache => atoms'.cache = atoms.cache
            /\ atoms'.dirty = atoms.dirty
            /\ atoms'.persistent = atoms.persistent
       /\ last'.op = "exists" =>
            /\ last'.existed = (last'.hid \in DOMAIN written)
            /\ last'.existed = (last'.hid \in DOMAIN atoms.cache
                                 \/ last'.hid \in DOMAIN atoms.persistent)
            /\ atoms' = atoms]_vars

\* C19, the case: get has loaded a committed value from the persistent table
\* into the cache of a new process, next to a value set and not committed.
C19_LoadedFromPersistent ==
    /\ last.op = "get"
    /\ last.err = ""
    /\ last.fn = "persistent"
    /\ last.hid \in DOMAIN atoms.cache
    /\ last.hid \notin atoms.dirty
    /\ \E key \in atoms.dirty :
          key \in DOMAIN atoms.persistent /\ atoms.persistent[key] # atoms.cache[key]

\* C20: drop(key) removes the key from the cache and from the persistent
\* table at once: afterwards exists(key) is false, and a later commit neither
\* fails nor re-creates the key, also when the key was dirty when dropped:
\* after commit the persistent table is the logical table.
C20_DropRemovesBoth ==
    [][/\ last'.op = "drop" =>
            /\ ~cache_exists(atoms', last'.hid)
            /\ last'.hid \notin atoms'.dirty
            /\ \A key \in TableKeys \ {last'.hid} :
                  /\ cache_exists(atoms', key) = cache_exists(atoms, key)
                  /\ FoundIn(atoms', key) = FoundIn(atoms, key)
       /\ (last'.op = "commit" /\ last'.hid = "") =>
            /\ last'.err = ""
            /\ atoms'.persistent = written
            /\ \A key \in TableKeys : cache_exists(atoms', key) = cache_exists(atoms, key)]_vars

\* C20, the case: a key that was dirty has been dropped while another key is
\* still dirty, so that the next commit has something to write.
C20_DroppedDirtyKey ==
    /\ last.op = "drop"
    /\ last.fn = "dirty"
    /\ ~cache_exists(atoms, last.hid)
    /\ atoms.dirty # {}
    /\ DOMAIN atoms.persistent # {}

\* C21: at most one context is open at a time: a `with storage:` block
\* entered while another one is open does not leave two blocks open.
C21_AtMostOneOpenContext == nesting <= 1

\* refs that share the hid of a stored shape and differ from it in content:
\* resident atoms of every value, and lists under another cid
SameProvenance(ref) ==
    IF ref.kind = "AtomRef"
    THEN {ref} \cup {wrap_atom(n, ref.hid) : n \in 0..MaxVal}
    ELSE {ref, [ref EXCEPT !.cid = "other"]}

\* the user ops whose stored call has this row
RowOps(row) == {op \in UserOps : op.name = row.op_name /\ Len(row.inputs) = 1}

\* C22: the memoization key depends on provenance only: call_internal on an
\* input ref that has the hid of the input of a stored call returns that
\* stored call, whatever the cid and the resident value of the ref are.
C22_KeyFromProvenanceOnly ==
    \A hid \in KnownCalls :
        \A op \in RowOps(StoredRow(hid)) :
            \A v \in SameProvenance(load_ref(Store, StoredRow(hid).inputs[1].hid, TRUE).ref) :
                LET r == call_internal(Store, op, <<Entry(InputName(op), v)>>,
                                       <<InputTp(op)>>)
                IN  /\ r.err = ""
                    /\ r.main_call = get_call(Store, hid, TRUE).call
                    /\ r.ran = <<>>

\* C22, the case: call_internal has answered from the memo table, and a ref
\* with the hid of the stored input and another cid meets the same entry.
C22_HitWithOtherContent ==
    /\ last.op = "call_internal"
    /\ last.existed
    /\ last.err = ""
    /\ \E op \in RowOps(StoredRow(last.hid)) :
           \E v \in SameProvenance(load_ref(Store, StoredRow(last.hid).inputs[1].hid,
                                            TRUE).ref) :
               /\ v.cid # load_ref(Store, StoredRow(last.hid).inputs[1].hid, TRUE).ref.cid
               /\ get_call_history_id(op, <<Entry(InputName(op), v)>>) = last.hid

\* the value stored for the first output of the call row, read back in full
OutputValue(row) == Content(load_ref(Store, row.outputs[1].hid, FALSE).ref)

\* C23: two stored calls of the same op whose inputs have different hids
\* and whose outputs have equal content have outputs with the same cid and
\* different hids, and each is stored under its own call hid with its own
\* output.
C23_SameCidOwnHid ==
    \A h1, h2 \in KnownCalls :
        LET r1 == StoredRow(h1)
            r2 == StoredRow(h2)
        IN  (/\ r1.op_name = r2.op_name
             /\ r1.op_name \in {op.name : op \in SameOps}
             /\ r1.inputs[1].hid # r2.inputs[1].hid
             /\ OutputValue(r1) = OutputValue(r2))
            => /\ r1.outputs[1].cid = r2.outputs[1].cid
               /\ r1.outputs[1].hid # r2.outputs[1].hid
               /\ h1 # h2
               /\ get_call(Store, h1, TRUE).call.outputs[1].ref.hid = r1.outputs[1].hid
               /\ get_call(Store, h2, TRUE).call.outputs[1].ref.hid = r2.outputs[1].hid

\* C23, the case: the calls zero(0) and zero(1) were executed and saved and
\* their outputs hold the same value.
C23_TwoCallsOneValue ==
    \E h1, h2 \in KnownCalls :
        /\ StoredRow(h1).op_name = "zero"
        /\ StoredRow(h2).op_name = "zero"
        /\ StoredRow(h1).inputs[1].hid # StoredRow(h2).inputs[1].hid
        /\ OutputValue(StoredRow(h1)) = OutputValue(StoredRow(h2))
        /\ OutputValue(StoredRow(h1)).in_memory
        /\ {h \in invoked : ~h.structural} = {Ran(zero_op, h1), Ran(zero_op, h2)}

\* a storage that holds nothing
NoStore == [atoms |-> EmptyTable, shapes |-> EmptyTable, ops |-> EmptyTable,
            calls |-> EmptyTable]

\* the ref that destruct was last called on is what construct returns for a
\* raw flat list when it executes the build-sequence call
ConstructedFlat ==
    /\ last.op = "destruct"
    /\ last.err = ""
    /\ \E tv \in RawValues :
           /\ tv.tp = ListType(AtomType)
           /\ Ids(construct(NoStore, tv.tp, tv.val).ref) = Ids(last.ref)

\* the hid that the get-element call on element i of ref gives its output
ElementHid(ref, i) ==
    get_output_history_id(
        get_call_history_id(get_item_op,
                            <<Entry("obj", ref), Entry("attr", wrap_atom(i - 1, ""))>>),
        "output_0")

\* C24 as stated: the element hids of a ref constructed from a raw flat list
\* equal the hids the get-element calls assign when the ref is destructed.
C24_ConstructHidsAreDestructHids ==
    ConstructedFlat => \A i \in 1..Len(held.elts) : last.ref.elts[i].hid = held.elts[i].hid

\* C24, amended: construct, when it executes the build-sequence call, gives
\* each element of a raw flat list the hid derived from its content; destruct
\* of that ref keeps the hid and the cid of the list
\* and the cid of each element, and replaces the hid of element i by the hid
\* of the output of its get-element call, which is derived from the hid of
\* the list and the index and differs from the hid construct assigned.
C24_DestructReassignsElementHids ==
    ConstructedFlat =>
        /\ held.hid = last.ref.hid
        /\ held.cid = last.ref.cid
        /\ Len(held.elts) = Len(last.ref.elts)
        /\ Len(pending) = Len(held.elts)
        /\ \A i \in 1..Len(held.elts) :
               /\ held.elts[i].cid = last.ref.elts[i].cid
               /\ last.ref.elts[i].hid = get_content_hash("hid", <<last.ref.elts[i].cid>>)
               /\ held.elts[i].hid = ElementHid(last.ref, i)
               /\ pending[i].op = get_item_op
               /\ pending[i].outputs[1].ref.hid = held.elts[i].hid
               /\ held.elts[i].hid # last.ref.elts[i].hid

\* C24, the case: a ref constructed from a raw flat list of two elements was
\* destructed.
C24_DestructedConstructed ==
    /\ ConstructedFlat
    /\ Len(held.elts) = 2
    /\ Len(pending) = 2

\* the call that the last save_call was given
SavedCall == CHOOSE c \in Range(pending) : c.hid = last.hid

\* the cids of the atoms of a ref, those of its elements included
RECURSIVE AtomCids(_)
AtomCids(ref) ==
    IF ref.kind = "AtomRef" THEN {ref.cid}
    ELSE UNION {AtomCids(ref.elts[i]) : i \in 1..Len(ref.elts)}

\* C25: after save_call of a call whose hid was not known, the op name is in
\* ops, the hid of every input and output ref is in shapes, the cid of every
\* atom of these refs is in atoms and the hid of the call is in calls; the
\* call row is written last: a save_call that raises leaves no call row.
C25_SaveCallWritesAll ==
    (last.op = "save_call" /\ ~last.existed) =>
        IF last.err = ""
        THEN /\ cache_exists(ops, SavedCall.op.name)
             /\ \A e \in Range(SavedCall.inputs \o SavedCall.outputs) :
                    /\ cache_exists(shapes, e.ref.hid)
                    /\ \A cid \in AtomCids(e.ref) : cache_exists(atoms, cid)
             /\ cache_exists(calls, SavedCall.hid)
        ELSE ~cache_exists(calls, SavedCall.hid)

\* the number of elements of a ref at every nesting level
RECURSIVE ElementCount(_)
SumCounts(elts, i) ==
    IF i > Len(elts) THEN 0 ELSE 1 + ElementCount(elts[i])
RECURSIVE CountFrom(_, _)
CountFrom(elts, i) ==
    IF i > Len(elts) THEN 0 ELSE SumCounts(elts, i) + CountFrom(elts, i + 1)
ElementCount(ref) == IF ref.kind = "ListRef" THEN CountFrom(ref.elts, 1) ELSE 0

\* the hids of the get-element calls of a ref: one per element, that of an
\* element of an inner list taken on the inner list under the hid its own
\* get-element call gave it
RECURSIVE GetItemHids(_)
GetItemHids(ref) ==
    IF ref.kind # "ListRef" THEN {}
    ELSE UNION {
        {get_call_history_id(get_item_op,
                             <<Entry("obj", ref), Entry("attr", wrap_atom(i - 1, ""))>>)}
        \cup GetItemHids(with_hid(ref.elts[i], ElementHid(ref, i))) :
        i \in 1..Len(ref.elts)}

\* C26: destruct returns a ref with the outer hid, the cid and the number of
\* elements of its argument; for a ListRef it returns exactly one
\* get-element call per element of every nesting level; for an AtomRef it
\* returns the ref unchanged and no call.
C26_DestructShapeAndCalls ==
    (last.op = "destruct" /\ last.err = "") =>
        /\ held.hid = last.ref.hid
        /\ held.cid = last.ref.cid
        /\ Len(held.elts) = Len(last.ref.elts)
        /\ last.ref.kind = "AtomRef" => (held = last.ref /\ pending = <<>>)
        /\ last.ref.kind = "ListRef" =>
               /\ Len(pending) = ElementCount(last.ref)
               /\ \A i \in 1..Len(pending) : pending[i].op = get_item_op
               /\ {pending[i].hid : i \in 1..Len(pending)} = GetItemHids(last.ref)
               /\ Cardinality(GetItemHids(last.ref)) = ElementCount(last.ref)

\* C26, the case: a list of two lists with three atoms in all was destructed.
C26_DestructedNested ==
    /\ last.op = "destruct"
    /\ last.err = ""
    /\ TypeOf(last.ref) = ListType(ListType(AtomType))
    /\ Len(held.elts) = 2
    /\ Len(pending) = 5

\* C27: leaving a `with storage:` block, normally or through an exception,
\* clears the current-context pointer and commits: afterwards in_context()
\* is false, no table has a dirty entry and every entry that was saved and
\* not yet durable is in the durable table.
C27_ExitClearsAndCommits ==
    [][last'.op = "exit" =>
          /\ current_context' = "None"
          /\ Flushed(atoms, atoms')
          /\ Flushed(shapes, shapes')
          /\ Flushed(ops, ops')
          /\ Flushed(calls, calls')]_vars

\* C27, the case: a block in which a call was saved was left through an
\* exception, and the rows of the call are durable.
C27_LeftThroughException ==
    /\ last.op = "exit"
    /\ last.existed
    /\ ~in_context
    /\ steps.crashes = 0
    /\ DOMAIN calls.persistent # {}
    /\ DOMAIN shapes.persistent # {}
    /\ DOMAIN atoms.persistent # {}

\* C28: after drop_calls(hids, delete_dependents=False) exists_call is false
\* for every dropped hid at once, without a commit: the call is in neither
\* the call cache nor the durable call table; every other call keeps its
\* cached row, its marker and its durable row, and no shape, atom or op row
\* is removed.
C28_DropCallsRemovesOnlyTheCalls ==
    [][last'.op = "drop_calls" =>
          /\ ~exists_call(StoreAfter, last'.hid)
          /\ last'.hid \notin DOMAIN calls'.cache
          /\ last'.hid \notin DOMAIN calls'.persistent
          /\ last'.hid \notin calls'.dirty
          /\ \A h \in KnownCalls \ {last'.hid} :
                 /\ exists_call(StoreAfter, h)
                 /\ Row(calls', h) = Row(calls, h)
          /\ UNCHANGED <<atoms, shapes, ops>>]_vars

\* C28, the case: a committed call was dropped while another call is stored;
\* the shape of its output is still durable.
C28_DroppedCommittedCall ==
    /\ last.op = "drop_calls"
    /\ ~exists_call(Store, last.hid)
    /\ get_output_history_id(last.hid, "output_0") \in DOMAIN shapes.persistent
    /\ KnownCalls # {}
    /\ steps.crashes = 0

\* C29: in the relational version a commit() without a call list succeeds,
\* leaves every object that was dirty in obj_cache and every call that was
\* dirty in call_cache_by_causal in the relational store with its cached
\* value, and leaves both dirty sets empty, so that is_clean holds; with
\* evict_on_commit and without it.
C29_CommitFlushesCaches ==
    [][(last'.op = "ui_commit" /\ last'.fn = "all") =>
        /\ last'.err = ""
        /\ \A k \in ui.obj_cache.dirty :
               k \in DOMAIN ui'.objs /\ ui'.objs[k] = ui.obj_cache.data[k]
        /\ \A k \in ui.call_cache_by_causal.dirty :
               k \in DOMAIN ui'.calls /\ ui'.calls[k] = ui.call_cache_by_causal.data[k]
        /\ ui'.obj_cache.dirty = {}
        /\ ui'.call_cache_by_causal.dirty = {}
        /\ is_clean(ui')
        /\ ui'.evict_on_commit = ui.evict_on_commit]_vars

\* C29 happens: a commit() of an evicting storage that had dirty entries
\* has written both calls and emptied the caches
C29_CommittedDirtyAndEvicted ==
    /\ last.op = "ui_commit" /\ last.fn = "all" /\ last.err = ""
    /\ last.existed
    /\ ui.evict_on_commit
    /\ DOMAIN ui.calls = {"c1", "c2"}
    /\ {"o1", "o2", "o3"} \subseteq DOMAIN ui.objs
    /\ ui.obj_cache.data = EmptyMap

\* a step of rename_func or rename_arg
RenameStep == last'.op \in {"rename_func", "rename_arg"}

\* C30: rename_func and rename_arg raise RuntimeError and change neither
\* the stored signatures nor the function object when the function is not
\* synchronized or the storage is not clean; a rename that succeeds leaves
\* the function invalidated, the function object stays invalidated from
\* then on, and every synchronize of an invalidated function raises
\* RuntimeError and changes nothing.
C30_RenamePreconditionAndInvalidation ==
    [][/\ (RenameStep /\ (~ui.func.is_synchronized \/ ~is_clean(ui))) =>
              (last'.err = "RuntimeError" /\ ui' = ui)
       /\ (RenameStep /\ last'.err = "") =>
              (ui'.func.is_invalidated /\ ui'.sigs # ui.sigs)
       /\ (ui.func.is_invalidated /\ last'.op # "define") => ui'.func.is_invalidated
       /\ (last'.op = "synchronize" /\ ui.func.is_invalidated) =>
              (last'.err = "RuntimeError" /\ ui' = ui)]_vars

\* C30 happens: a function that was renamed with success, synchronized
\* again, has raised, and the storage holds the signature under the new name
C30_SynchronizedAfterRename ==
    /\ last.op = "synchronize" /\ last.err = "RuntimeError"
    /\ ui.func.is_invalidated /\ ui.func.is_synchronized /\ ui.func.storage_id = "storage"
    /\ ui.func.sig.ui_name = "f"
    /\ StoredAs(ui, "f") = {} /\ StoredAs(ui, "g") # {}
    /\ ui.calls # EmptyMap

\* a rename has been refused for uncommitted work
C30_RenameRefusedDirty ==
    /\ last.op = "rename_func" /\ last.err = "RuntimeError"
    /\ ui.func.is_synchronized /\ ~ui.func.is_invalidated /\ ~is_clean(ui)

\* C32: referential integrity from calls to shapes: with no context open,
\* after any sequence of save_call, commit, drop_calls and cleanup_refs every
\* input and output hid of every call in the calls table, cached or durable,
\* has a row in shapes; cleanup_refs never drops the shape of a ref used by
\* a call that is saved but not yet committed.
C32_CallRefsHaveShapes ==
    ~in_context =>
        \A hid \in Keys(calls) : \A r \in RowIds(Row(calls, hid)) : r.hid \in Keys(shapes)

\* C33: referential integrity from shapes to atoms: after any sequence of
\* save_call, commit, drop_calls and cleanup_refs every AtomRef shape in
\* shapes, cached or durable, has its cid in atoms; cleanup_refs never drops
\* an atom that is referenced only by a saved-but-uncommitted shape.
C33_AtomShapesHaveAtoms ==
    \A hid \in Keys(shapes) :
        Row(shapes, hid).kind = "AtomRef" => Row(shapes, hid).cid \in Keys(atoms)

\* C34: cleanup_refs never removes the shape of an element of a ListRef whose
\* own shape survives: after cleanup_refs every child hid of every list shape
\* still in shapes is itself in shapes, also when only the main call that
\* uses the list was saved and not the structural calls.
C34_ListElementsSurvive ==
    (last.op = "cleanup_refs" /\ last.err = "") =>
        \A hid \in Keys(shapes) :
            \A i \in 1..Len(Row(shapes, hid).elts) :
                Row(shapes, hid).elts[i].hid \in Keys(shapes)

\* C35: while a `with storage:` block is active, also after a nested block
\* was entered and left inside it, in_context() is true and get_orphans,
\* get_unreferenced_cids, cleanup_refs, get_creators and get_consumers are
\* rejected.
C35_RejectedWhileOuterBlockActive ==
    [][/\ nesting' > 0 => current_context' # "None"
       /\ (last'.op \in Queries /\ nesting > 0) => last'.err = "NotImplementedError"]_vars

RECURSIVE ConsumersOf(_)
\* the calls in the calls table, cached or durable, that consume, directly
\* or through other calls, an output of one of these calls
ConsumersOf(call_hids) ==
    LET outs == UNION {{Row(calls, h).outputs[i].hid : i \in 1..Len(Row(calls, h).outputs)} :
                       h \in call_hids \cap Keys(calls)}
        more == {h \in Keys(calls) :
                    \E i \in 1..Len(Row(calls, h).inputs) : Row(calls, h).inputs[i].hid \in outs}
    IN  IF more \subseteq call_hids THEN call_hids ELSE ConsumersOf(call_hids \cup more)

\* C36: after drop_calls(hids, delete_dependents=True) exists_call is false
\* for the dropped calls and for every call that consumes, directly or
\* transitively, an output of a dropped call, dependent calls that are only
\* in the call cache included.
C36_DependentsDropped ==
    [][(last'.op = "drop_calls" /\ last'.fn = "delete_dependents") =>
          \A c \in ConsumersOf({last'.hid}) : ~exists_call(StoreAfter, c)]_vars

\* C37: get_call(hid) returns a Call whose op descriptor has the name and
\* the version the call was saved with, also when calls of two ops that
\* share a name and differ in version have been saved: after save_call the
\* row of the call does not lead to a descriptor of another version.
C37_CallKeepsItsOpVersion ==
    [][(last'.op = "save_call" /\ last'.err = "") =>
          \A i \in 1..Len(pending) :
              pending[i].hid = last'.hid =>
                  /\ get_call(StoreAfter, last'.hid, TRUE).err = ""
                  /\ get_call(StoreAfter, last'.hid, TRUE).call.op.name = pending[i].op.name
                  /\ get_call(StoreAfter, last'.hid, TRUE).call.op.version
                         = pending[i].op.version]_vars

\* C38: in the relational version commit clears the dirty marker only of
\* entries it has written: after commit(calls=L) with an explicit call list
\* every object and every call that was dirty is still dirty or is in the
\* relational store, the entries that are not part of L included.
C38_NoDirtyEntryLost ==
    [][(last'.op = "ui_commit" /\ last'.fn = "calls") =>
          /\ \A k \in ui.obj_cache.dirty :
                 k \in ui'.obj_cache.dirty \/ k \in DOMAIN ui'.objs
          /\ \A k \in ui.call_cache_by_causal.dirty :
                 k \in ui'.call_cache_by_causal.dirty \/ k \in DOMAIN ui'.calls]_vars

\* C31: in mandala_lite, after Context.__exit__ the attributes storage, mode
\* and lazy have the values they had before the matching __enter__, at any
\* nesting depth on the same Context object and also when the commit or the
\* synchronization raises inside __exit__ (the exception leaves __exit__
\* after the rollback), and GlobalContext.current is None when the last
\* level has been left.
C31_ExitRestoresContext ==
    [][last'.op = "context_exit" =>
          /\ lite'.attrs = lite.entered[Len(lite.entered)]
          /\ lite.attrs.storage = "None" => last'.err = "AttributeError"
          /\ last'.existed => last'.err # ""
          /\ lite'.entered = <<>> => lite'.current = "None"]_vars

\* C39: in mandala_lite, when Context.__enter__ raises ValueError for an
\* update key other than storage, mode and lazy, GlobalContext.current, the
\* updates stack and the attributes of the context are as before the call.
C39_RejectedEnterChangesNothing ==
    [][(last'.op = "context_enter" /\ last'.err = "ValueError") =>
          /\ lite'.current = lite.current
          /\ lite'.updates_stack = lite.updates_stack
          /\ lite'.attrs = lite.attrs]_vars

====
